---- MODULE Spec2Model ----
(***************************************************************************)
(* easydbg: the managed transaction of EasyDBGClient (lib/client.js,       *)
(* transaction(callback, existingTrx)) together with the Transaction       *)
(* handle it passes to the callback (lib/transaction.js: begin, commit,    *)
(* rollback, release, savepoint, rollbackTo).                              *)
(*                                                                         *)
(* Every top-level transaction() call is one asynchronous process.  Each   *)
(* `await` of the source is a step boundary: an action is the completion   *)
(* of the awaited promise together with the synchronous code that follows  *)
(* it up to the next await.  The user callback is nondeterministic: at     *)
(* each of its turns it awaits a statement, awaits a nested transaction,   *)
(* returns a value or throws; an error raised by something it awaited is   *)
(* either caught or left to propagate.                                     *)
(***************************************************************************)
EXTENDS Integers, Sequences, FiniteSets, TLC

\* ---- bounds ----
\* The application either makes one transaction() call on a pool of one
\* connection, whose callbacks are explored in depth, or two concurrent calls
\* on a pool of two connections, one of them with a callback that awaits
\* nothing.  An operation of a callback is an awaited statement or an awaited
\* nested transaction() call.
MaxOps    == 3      \* operations of the callbacks of the single transaction
PairOps   == 1      \* the same, for the first of two concurrent transactions
MaxDepth  == 2      \* nested scopes open at the same time
NumValues == 2      \* distinct values a callback may return
MaxQueries == 2     \* statements issued through the client itself
MaxSqlLen == 3      \* pieces (placeholders and text) of a SQL string
MaxWheres == 2      \* where() calls made on a builder
MaxCols   == 2      \* keys of a data object given to insert() / update()
MaxRows   == 2      \* rows of an array given to insert()
MaxCompiles == 2    \* terminal operations called on one builder
MaxTableCols == 2   \* columns of a table definition
MaxDdl    == 3      \* schema operations made on the table
MaxFiles  == 3      \* migration files in the directory
MaxMigCalls == 2    \* calls made on the migrator
MaxManual == 4      \* manual-control calls made on the client
MaxConnOps == 2     \* calls each concurrent caller makes on the client

Calls  == {1, 2}    \* concurrent top-level db.transaction(...) calls
Conns  == {1, 2}    \* connections of the pool
Values == 1..NumValues

NoConn  == 0
NoValue == 0

Dialects == {"postgres", "mysql", "mssql", "oracle"}

NoStmt  == [client |-> "none", sql |-> <<>>, bindings |-> <<>>]
NotSent == [status |-> "none", sql |-> <<>>, bindings |-> <<>>, inputs |-> <<>>]
NotSettled == [kind |-> "none", sql |-> <<>>, bindings |-> <<>>]

\* what the application does with the client: which calls it makes and how
\* much their callbacks do
NotMade  == [made |-> FALSE, ops |-> 0]
Workload(ops) == [made |-> TRUE, ops |-> ops]
Plans == { [pool |-> {1},
            calls |-> [t \in Calls |-> IF t = 1 THEN Workload(MaxOps) ELSE NotMade]],
           [pool |-> Conns,
            calls |-> [t \in Calls |-> Workload(IF t = 1 THEN PairOps ELSE 0)]] }

Null == 0           \* null / undefined of the source

\* builder.js:25-33 before from() is called
NoStatements == [select |-> <<"*">>, from |-> "", where |-> <<>>, orderBy |-> <<>>,
                 limit |-> Null, offset |-> Null, returning |-> <<>>]
NoData       == [isArray |-> FALSE, rows |-> <<<<>>>>]
NotCompiled  == [op |-> "none", arg |-> NoData, sql |-> <<>>, bindings |-> <<>>,
                 warned |-> FALSE]

NoDdl == [op |-> "none", columns |-> <<>>, thrown |-> FALSE, commands |-> <<>>,
          sent |-> 0, error |-> "none", existed |-> FALSE, faultAt |-> 0, sqlcode |-> 0, raised |-> 0,
          prevOp |-> "none", prevRaised |-> 0, prevExisted |-> FALSE]

\* defaultValue of a column on which defaultTo() was not called
Undefined == [typeof |-> "undefined", text |-> ""]

NoColumn == [name |-> "", type |-> "", isNullable |-> TRUE, isPrimary |-> FALSE,
             isUnique |-> FALSE, defaultValue |-> Undefined]

NotCompiledColumn == [done |-> FALSE, thrown |-> "none", parts |-> <<>>]

NoPool == 0
NoFailure == [happened |-> FALSE, call |-> 0, at |-> "none", poolAfter |-> 0,
              others |-> 0]

NoManCall == [op |-> "none", before |-> 0, acquired |-> 0, begins |-> 0,
              commands |-> 0, released |-> 0, failed |-> FALSE]

NoMigCall == [op |-> "none", tableOk |-> FALSE, status |-> "none", file |-> 0, returned |-> <<>>,
              ran |-> <<>>, before |-> <<>>, pending |-> <<>>, batch |-> 0]

\* the application makes no transaction() call
IdlePlans == { [pool |-> Conns, calls |-> [t \in Calls |-> NotMade]] }

\* ---- errors ----
\* An error object is identified by its class, the command whose failure
\* created it ("callback" for an error thrown by user code) and the number of
\* commands issued on the transaction when it was created.
NoErr == [kind |-> "none", op |-> "none", id |-> 0]

\* client.js:435-438, _executeQuery wraps every driver failure in QueryError
ExecuteQueryError(op, idx) == [kind |-> "QueryError", op |-> op, id |-> idx]

\* an error thrown by the user's callback
CallbackError(idx) == [kind |-> "Error", op |-> "callback", id |-> idx]

\* the rejection of pool.getConnection(), which transaction() does not wrap
DriverError == [kind |-> "DriverError", op |-> "getConnection", id |-> 0]

ControlOps == {"BEGIN", "COMMIT", "ROLLBACK", "SAVEPOINT", "ROLLBACK_TO"}

\* ---- helpers ----
Last(s) == s[Len(s)]

SetLastStatus(s, st) == [s EXCEPT ![Len(s)].st = st]

\* a command handed to connection.query by _executeQuery
Cmd(op, arg, c) == [op |-> op, arg |-> arg, conn |-> c, st |-> "inflight"]

CountOp(s, op) == Cardinality({i \in 1..Len(s) : s[i].op = op})

IsPrefix(p, s) == Len(p) <= Len(s) /\ \A i \in 1..Len(p) : p[i] = s[i]

VARIABLES
  plan,      \* the application's workload (fixed from the start)
  pc,        \* position of each transaction() call
  conn,      \* trx.connection of the call's Transaction handle
  level,     \* trx.level
  stack,     \* open nested scopes of the call, innermost last
  err,       \* the error being raised / caught in the innermost scope
  result,    \* value returned by the top-level callback
  outcome,   \* how the call settled: [value] or [error]
  issued,    \* commands sent through the handle, in order, with their status
  releases,  \* number of connection.release() calls made by the call
  free,      \* idle connections of the pool
  held,      \* connections each call has taken from the pool and not given back
  dbLog,     \* per connection: statements in effect in the open DB transaction
  dbSps,     \* per connection: savepoints of the open DB transaction
  nops,      \* operations awaited so far by the call's callbacks
  threw,     \* the error the top-level callback threw (NoErr if it did not)
  nestedEnd, \* the last nested scope that ended: how, and the levels around it
  caught,    \* an enclosing callback caught the error of a nested scope
             \* whose callback threw
  qpc,       \* position of the db.query(...) flow on the client itself
  qconn,     \* the pooled connection its current statement is executed on
  qleft,     \* db.query(...) calls the flow has still to make
  loose,     \* the call's callbacks may start statements without awaiting
  stmt,      \* a statement handed to _executeQuery: dialect, SQL, bindings
  wire,      \* what _executeQuery gave the driver for it, or its rejection
  surfaced,  \* how the statement settled for the caller of db.query
  grammar,   \* the dialect of the grammar a QueryBuilder was created with
  statements,\* builder._statements
  given,     \* the statements as they were when the last terminal operation
             \* handed the builder to the grammar
  compiled,  \* SQL and bindings of the last terminal operation
  ncompiled, \* terminal operations called on the builder so far
  schemaGrammar, \* the dialect of the client's schema grammar
  onTable, \* the table the application's schema operations are about
  tables,    \* tables of the Oracle schema
  sequences, \* sequences of the Oracle schema
  ddl,       \* the last schema operation: its commands and how it ended
  nddl,      \* schema operations made so far
  colGrammar, \* the dialect of the schema grammar compiling one column
  coldef,    \* a column definition left by the table builder
  colsql,    \* the column text compiled from it
  migFiles,  \* the migration files of the directory
  migFailing, \* those whose up function throws
  migRecords, \* the batch each file is recorded under in the migrations table, 0: none
  migLast,   \* the last call on the migrator and how it settled
  nmig,      \* calls made on the migrator so far
  transactionConnection, \* client.transactionConnection under manual control
  manHeld,   \* connections acquired from the pool and not released
  man,       \* the last manual-control call and what it did
  manLog,    \* what the pool and the connections were asked to do, in order
  nman,      \* manual-control calls made so far
  connDialect, \* clientType of the client that connects
  pool,      \* client.pool: the pool it holds, NoPool for null
  poolsCreated, \* pools created by the drivers for the client
  cpc,       \* where each concurrent caller is in its call
  cop,       \* the call each caller is making
  cleft,     \* calls each caller may still make
  mine,      \* the pool created in each caller's current connect()
  used,      \* the pool each caller's last call ran its statement on
  cres,      \* how each caller's last call settled
  failRec    \* the last connect() that failed, and client.pool after it

txVars == <<plan, pc, conn, level, stack, err, result, outcome, issued, releases,
            free, held, dbLog, dbSps, nops, threw, nestedEnd, caught>>

concVars == <<qpc, qconn, qleft, loose>>

prepVars == <<stmt, wire, surfaced>>

\* the compilers and the placeholder rewrite, which share no state with the
\* transactions
compVars == <<grammar, statements, given, compiled, ncompiled>>

schemaVars == <<schemaGrammar, onTable, tables, sequences, ddl, nddl>>

colVars == <<colGrammar, coldef, colsql>>

migVars == <<migFiles, migFailing, migRecords, migLast, nmig>>

manVars == <<transactionConnection, manHeld, man, manLog, nman>>

connVars == <<connDialect, pool, poolsCreated, cpc, cop, cleft, mine, used, cres,
              failRec>>

laterVars == <<colVars, migVars, manVars, connVars>>

pureVars == <<prepVars, compVars, schemaVars, laterVars>>

\* everything outside the managed transaction
appVars == <<concVars, pureVars>>

vars == <<txVars, appVars>>

trxVars   == <<conn, level>>
poolVars  == <<free, held, releases>>
dbVars    == <<dbLog, dbSps>>
countVars == <<plan, nops>>
ghostVars == <<threw, nestedEnd, caught>>

NoNestedEnd == [how |-> "none", thrown |-> NoErr, rejected |-> NoErr,
                entryLevel |-> 0, exitLevel |-> 0,
                entryLog |-> <<>>, exitLog |-> <<>>]

TxInit(plans) ==
  /\ plan \in plans
  /\ pc = [t \in Calls |-> "idle"]
  /\ conn = [t \in Calls |-> NoConn]
  /\ level = [t \in Calls |-> 0]
  /\ stack = [t \in Calls |-> <<>>]
  /\ err = [t \in Calls |-> NoErr]
  /\ result = [t \in Calls |-> NoValue]
  /\ outcome = [t \in Calls |-> [value |-> NoValue, error |-> NoErr]]
  /\ issued = [t \in Calls |-> <<>>]
  /\ releases = [t \in Calls |-> 0]
  /\ free = plan.pool
  /\ held = [t \in Calls |-> {}]
  /\ dbLog = [c \in Conns |-> <<>>]
  /\ dbSps = [c \in Conns |-> <<>>]
  /\ nops = [t \in Calls |-> 0]
  /\ threw = [t \in Calls |-> NoErr]
  /\ nestedEnd = [t \in Calls |-> NoNestedEnd]
  /\ caught = [t \in Calls |-> FALSE]

\* the application makes no db.query(...) call and its callbacks await
\* everything they start
ConcOff ==
  /\ qpc = "idle"
  /\ qconn = NoConn
  /\ qleft = 0
  /\ loose = [t \in Calls |-> FALSE]

\* no statement is being prepared
PrepOff ==
  /\ stmt = NoStmt
  /\ wire = NotSent
  /\ surfaced = NotSettled

\* no QueryBuilder exists
CompOff ==
  /\ grammar = "none"
  /\ statements = NoStatements
  /\ given = NoStatements
  /\ compiled = NotCompiled
  /\ ncompiled = 0

\* no schema operation is made
SchemaOff ==
  /\ schemaGrammar = "none"
  /\ onTable = <<>>
  /\ tables = {}
  /\ sequences = {}
  /\ ddl = NoDdl
  /\ nddl = 0

\* no column is compiled on its own
ColumnOff ==
  /\ colGrammar = "none"
  /\ coldef = NoColumn
  /\ colsql = NotCompiledColumn

\* no migrator exists
MigOff ==
  /\ migFiles = {}
  /\ migFailing = {}
  /\ migRecords = <<>>
  /\ migLast = NoMigCall
  /\ nmig = 0

\* manual transaction control is not used
ManOff ==
  /\ transactionConnection = NoConn
  /\ manHeld = {}
  /\ man = NoManCall
  /\ manLog = <<>>
  /\ nman = 0

\* no caller connects
ConnOff ==
  /\ connDialect = "none"
  /\ pool = NoPool
  /\ poolsCreated = 0
  /\ cpc = <<>>
  /\ cop = <<>>
  /\ cleft = <<>>
  /\ mine = <<>>
  /\ used = <<>>
  /\ cres = <<>>
  /\ failRec = NoFailure

LaterOff == ColumnOff /\ MigOff /\ ManOff /\ ConnOff

PureOff == PrepOff /\ CompOff /\ SchemaOff /\ LaterOff

Init == TxInit(Plans) /\ ConcOff /\ PureOff


\* ---- the code of lib/client.js and lib/transaction.js, as operators ----

\* transaction.js:91, the connections whose `release` is a function
HasRelease == Conns

\* transaction.js:90-94, Transaction.release(): the connections handed back
Released(c) == IF c # NoConn /\ c \in HasRelease THEN {c} ELSE {}

FinallyRelease_onlyWhenNotRethrown(c, rethrows) ==
  IF rethrows THEN {} ELSE Released(c)

\* client.js:404-406, `finally { trx.release(); }`: runs whether or not the
\* try or the catch block threw
FinallyRelease(c, rethrows) == Released(c)

TransactionConnection_shared(idle, busy) == IF busy # {} THEN busy ELSE idle

\* client.js:393, a new top-level transaction takes its own connection from
\* the pool; the pool hands out one of its idle connections
TransactionConnection(idle, busy) == idle

SavepointName_fixed(lvl) == 1

\* client.js:379, `easydbg_sp_${existingTrx.level + 1}`; a savepoint name is
\* modelled by its numeric suffix
SavepointName(lvl) == lvl + 1

LevelAfterSavepoint_unchanged(lvl) == lvl

\* transaction.js:103, `this.level++` in savepoint()
LevelAfterSavepoint(lvl) == lvl + 1

\* transaction.js:113, `this.level--` after the ROLLBACK TO SAVEPOINT resolved
LevelAfterRollbackTo(lvl) == lvl - 1

NestedCatchCommand_full(name, c) == Cmd("ROLLBACK", 0, c)

\* client.js:386 with transaction.js:112, `ROLLBACK TO SAVEPOINT ${name}`
NestedCatchCommand(name, c) == Cmd("ROLLBACK_TO", name, c)

TopCatchCommand_commit(c) == Cmd("COMMIT", 0, c)

\* client.js:402 with transaction.js:83, trx.rollback() sends ROLLBACK
TopCatchCommand(c) == Cmd("ROLLBACK", 0, c)

Rethrown_wrapped(error, ok, cmdErr) ==
  IF ok THEN [error EXCEPT !.kind = "TransactionError"] ELSE cmdErr

\* client.js:386-387 and 402-403, `await <rollback>; throw error;`: when the
\* awaited rollback command rejects, its error leaves the catch block and
\* `throw error` is never reached
Rethrown(error, ok, cmdErr) == IF ok THEN error ELSE cmdErr

ResolveValue_undefined(res) == NoValue

\* client.js:398-400, `const result = await callback(trx); ... return result;`
ResolveValue(res) == res

\* ---- the database behind a connection ----

\* SAVEPOINT name: a new savepoint at the current end of the statement log
DbSavepoint(sps, name, log) == Append(sps, [name |-> name, pos |-> Len(log)])

DbSavepointIndex(sps, name) ==
  LET S == {i \in 1..Len(sps) : sps[i].name = name}
  IN  IF S = {} THEN 0 ELSE CHOOSE i \in S : \A j \in S : j <= i

\* ROLLBACK TO SAVEPOINT name: undoes what was done after the most recent
\* savepoint of that name, destroys the savepoints made after it, keeps it
DbRollbackToLog(log, sps, name) ==
  SubSeq(log, 1, sps[DbSavepointIndex(sps, name)].pos)

DbRollbackToSps(sps, name) == SubSeq(sps, 1, DbSavepointIndex(sps, name))

\* ---- steps of transaction(callback), top level (client.js:391-406) ----

Busy == UNION {held[t] : t \in Calls}

\* the promise settles; the finally block has released the connection
Settle(t, val, e, rel) ==
  /\ pc' = [pc EXCEPT ![t] = IF e = NoErr THEN "resolved" ELSE "rejected"]
  /\ outcome' = [outcome EXCEPT ![t] = [value |-> val, error |-> e]]
  /\ releases' = [releases EXCEPT ![t] = @ + Cardinality(rel)]
  /\ free' = free \cup rel
  /\ held' = [held EXCEPT ![t] = @ \ rel]

\* client.js:393-397: getConnection resolves, the handle is built with
\* level 0, trx.begin() sends BEGIN
Acquire(t, c) ==
  /\ UNCHANGED appVars
  /\ pc[t] = "idle"
  /\ plan.calls[t].made
  /\ c \in TransactionConnection(free, Busy)
  /\ free' = free \ {c}
  /\ held' = [held EXCEPT ![t] = @ \cup {c}]
  /\ conn' = [conn EXCEPT ![t] = c]
  /\ level' = [level EXCEPT ![t] = 0]
  /\ issued' = [issued EXCEPT ![t] = <<Cmd("BEGIN", 0, c)>>]
  /\ pc' = [pc EXCEPT ![t] = "begin"]
  /\ UNCHANGED <<stack, err, result, outcome, releases, dbVars, countVars,
                 ghostVars>>

\* client.js:393: getConnection rejects, outside the try block
AcquireFail(t) ==
  /\ UNCHANGED appVars
  /\ pc[t] = "idle"
  /\ plan.calls[t].made
  /\ pc' = [pc EXCEPT ![t] = "rejected"]
  /\ outcome' = [outcome EXCEPT ![t] = [value |-> NoValue, error |-> DriverError]]
  /\ UNCHANGED <<trxVars, stack, err, result, issued, poolVars, dbVars,
                 countVars, ghostVars>>

\* client.js:397-398 / 401-402: BEGIN completes; on success the callback
\* starts, on failure the catch block sends ROLLBACK
BeginDone(t, ok) ==
  /\ UNCHANGED appVars
  /\ pc[t] = "begin"
  /\ IF ok
       THEN /\ issued' = [issued EXCEPT ![t] = SetLastStatus(@, "ok")]
            /\ dbLog' = [dbLog EXCEPT ![conn[t]] = <<>>]
            /\ dbSps' = [dbSps EXCEPT ![conn[t]] = <<>>]
            /\ pc' = [pc EXCEPT ![t] = "body"]
            /\ err' = err
       ELSE /\ issued' = [issued EXCEPT ![t] =
                 Append(SetLastStatus(@, "fail"), TopCatchCommand(conn[t]))]
            /\ err' = [err EXCEPT ![t] = ExecuteQueryError("BEGIN", Len(issued[t]))]
            /\ pc' = [pc EXCEPT ![t] = "rollback"]
            /\ UNCHANGED dbVars
  /\ UNCHANGED <<trxVars, stack, result, outcome, poolVars, countVars,
                 ghostVars>>

\* client.js:399-405: COMMIT completes; on success the call resolves with the
\* callback's value, on failure the catch block sends ROLLBACK
CommitDone(t, ok) ==
  /\ UNCHANGED appVars
  /\ pc[t] = "commit"
  /\ IF ok
       THEN /\ issued' = [issued EXCEPT ![t] = SetLastStatus(@, "ok")]
            /\ dbLog' = [dbLog EXCEPT ![conn[t]] = <<>>]
            /\ dbSps' = [dbSps EXCEPT ![conn[t]] = <<>>]
            /\ Settle(t, ResolveValue(result[t]), NoErr,
                      FinallyRelease(conn[t], FALSE))
            /\ err' = err
       ELSE /\ issued' = [issued EXCEPT ![t] =
                 Append(SetLastStatus(@, "fail"), TopCatchCommand(conn[t]))]
            /\ err' = [err EXCEPT ![t] = ExecuteQueryError("COMMIT", Len(issued[t]))]
            /\ pc' = [pc EXCEPT ![t] = "rollback"]
            /\ UNCHANGED <<dbVars, outcome, poolVars>>
  /\ UNCHANGED <<trxVars, stack, result, countVars, ghostVars>>

\* client.js:402-405: ROLLBACK completes; the catch block rethrows and the
\* finally block releases
RollbackDone(t, ok) ==
  /\ UNCHANGED appVars
  /\ pc[t] = "rollback"
  /\ issued' = [issued EXCEPT ![t] = SetLastStatus(@, IF ok THEN "ok" ELSE "fail")]
  /\ IF ok
       THEN /\ dbLog' = [dbLog EXCEPT ![conn[t]] = <<>>]
            /\ dbSps' = [dbSps EXCEPT ![conn[t]] = <<>>]
       ELSE UNCHANGED dbVars
  /\ Settle(t, NoValue,
            Rethrown(err[t], ok, ExecuteQueryError("ROLLBACK", Len(issued[t]))),
            FinallyRelease(conn[t], ~ok))
  /\ UNCHANGED <<trxVars, stack, err, result, countVars, ghostVars>>


\* ---- the user callback and nested scopes (client.js:377-389) ----

\* the innermost running callback throws `e`: its transaction() call catches
\* it; a nested scope sends ROLLBACK TO SAVEPOINT (client.js:385-386), the
\* top level sends ROLLBACK (client.js:401-402)
Raise(t, e) ==
  /\ UNCHANGED appVars
  /\ err' = [err EXCEPT ![t] = e]
  /\ IF stack[t] = <<>>
       THEN /\ threw' = [threw EXCEPT ![t] = e]
            /\ issued' = [issued EXCEPT ![t] = Append(@, TopCatchCommand(conn[t]))]
            /\ pc' = [pc EXCEPT ![t] = "rollback"]
            /\ stack' = stack
       ELSE /\ threw' = threw
            /\ issued' = [issued EXCEPT ![t] =
                 Append(@, NestedCatchCommand(Last(stack[t]).name, conn[t]))]
            /\ pc' = [pc EXCEPT ![t] = "rollbackTo"]
            /\ stack' = [stack EXCEPT ![t][Len(stack[t])].thrown = e]
  /\ UNCHANGED <<trxVars, result, outcome, poolVars, dbVars, countVars,
                 nestedEnd, caught>>

\* the callback throws an error of its own
CallbackThrow(t) ==
  /\ pc[t] = "body"
  /\ Raise(t, CallbackError(Len(issued[t])))

\* the callback does not catch the error of what it awaited
CallbackPropagate(t) ==
  /\ pc[t] = "raised"
  /\ Raise(t, err[t])

\* the callback catches the error of what it awaited and goes on
CallbackCatch(t) ==
  /\ UNCHANGED appVars
  /\ pc[t] = "raised"
  /\ pc' = [pc EXCEPT ![t] = "body"]
  /\ err' = [err EXCEPT ![t] = NoErr]
  /\ caught' = [caught EXCEPT ![t] =
       @ \/ (nestedEnd[t].how \in {"rolledBack", "rollbackFailed"}
             /\ nestedEnd[t].rejected = err[t])]
  /\ UNCHANGED <<trxVars, stack, result, outcome, issued, poolVars, dbVars,
                 countVars, threw, nestedEnd>>

\* the callback awaits a statement on its handle: trx.query / trx.table(..)
\* terminal operation (transaction.js:42-53), sent by _executeQuery
IssueStatement(t) ==
  /\ UNCHANGED appVars
  /\ pc[t] = "body"
  /\ nops[t] < plan.calls[t].ops
  /\ nops' = [nops EXCEPT ![t] = @ + 1]
  /\ issued' = [issued EXCEPT ![t] = Append(@, Cmd("STMT", 0, conn[t]))]
  /\ pc' = [pc EXCEPT ![t] = "stmt"]
  /\ UNCHANGED <<trxVars, stack, err, result, outcome, poolVars, dbVars,
                 plan, ghostVars>>

\* client.js:433-438: the statement completes; a failure reaches the callback
\* as a QueryError
StatementDone(t, ok) ==
  /\ UNCHANGED appVars
  /\ pc[t] = "stmt"
  /\ IF ok
       THEN /\ issued' = [issued EXCEPT ![t] = SetLastStatus(@, "ok")]
            /\ dbLog' = [dbLog EXCEPT ![conn[t]] = Append(@, <<t, Len(issued[t])>>)]
            /\ pc' = [pc EXCEPT ![t] = "body"]
            /\ err' = err
       ELSE /\ issued' = [issued EXCEPT ![t] = SetLastStatus(@, "fail")]
            /\ dbLog' = dbLog
            /\ pc' = [pc EXCEPT ![t] = "raised"]
            /\ err' = [err EXCEPT ![t] = ExecuteQueryError("STMT", Len(issued[t]))]
  /\ UNCHANGED <<trxVars, stack, result, outcome, poolVars, dbSps, countVars,
                 ghostVars>>

\* client.js:377-380 with transaction.js:102-104: the callback awaits
\* trx.transaction(cb); the name is computed, level is incremented and
\* SAVEPOINT is sent
EnterNested(t) ==
  /\ UNCHANGED appVars
  /\ pc[t] = "body"
  /\ nops[t] < plan.calls[t].ops
  /\ Len(stack[t]) < MaxDepth
  /\ nops' = [nops EXCEPT ![t] = @ + 1]
  /\ LET name == SavepointName(level[t])
     IN  /\ issued' = [issued EXCEPT ![t] = Append(@, Cmd("SAVEPOINT", name, conn[t]))]
         /\ stack' = [stack EXCEPT ![t] =
              Append(@, [name |-> name, entryLevel |-> level[t],
                         entryLog |-> dbLog[conn[t]], thrown |-> NoErr])]
  /\ level' = [level EXCEPT ![t] = LevelAfterSavepoint(@)]
  /\ pc' = [pc EXCEPT ![t] = "savepoint"]
  /\ UNCHANGED <<conn, err, result, outcome, poolVars, dbVars, plan, ghostVars>>

EndNested(t, how, rejected, lvl, log) ==
  LET f == Last(stack[t])
  IN  /\ nestedEnd' = [nestedEnd EXCEPT ![t] =
             [how |-> how, thrown |-> f.thrown, rejected |-> rejected,
              entryLevel |-> f.entryLevel, exitLevel |-> lvl,
              entryLog |-> f.entryLog, exitLog |-> log]]
      /\ stack' = [stack EXCEPT ![t] = SubSeq(@, 1, Len(@) - 1)]

\* client.js:380-382: SAVEPOINT completes; on success the nested callback
\* starts, on failure the nested transaction() call rejects (the await is
\* outside the try block) and the error reaches the enclosing callback
SavepointDone(t, ok) ==
  /\ UNCHANGED appVars
  /\ pc[t] = "savepoint"
  /\ IF ok
       THEN /\ issued' = [issued EXCEPT ![t] = SetLastStatus(@, "ok")]
            /\ dbSps' = [dbSps EXCEPT ![conn[t]] =
                 DbSavepoint(@, Last(issued[t]).arg, dbLog[conn[t]])]
            /\ pc' = [pc EXCEPT ![t] = "body"]
            /\ UNCHANGED <<err, stack, nestedEnd>>
       ELSE /\ issued' = [issued EXCEPT ![t] = SetLastStatus(@, "fail")]
            /\ dbSps' = dbSps
            /\ pc' = [pc EXCEPT ![t] = "raised"]
            /\ err' = [err EXCEPT ![t] = ExecuteQueryError("SAVEPOINT", Len(issued[t]))]
            /\ EndNested(t, "savepointFailed",
                         ExecuteQueryError("SAVEPOINT", Len(issued[t])),
                         level[t], dbLog[conn[t]])
  /\ UNCHANGED <<trxVars, result, outcome, poolVars, dbLog, countVars,
                 threw, caught>>

\* the callback returns: a nested scope resolves without any command
\* (client.js:382-384), the top level sends COMMIT (client.js:398-399)
CallbackReturn(t, v) ==
  /\ UNCHANGED appVars
  /\ pc[t] = "body"
  /\ IF stack[t] = <<>>
       THEN /\ result' = [result EXCEPT ![t] = v]
            /\ issued' = [issued EXCEPT ![t] = Append(@, Cmd("COMMIT", 0, conn[t]))]
            /\ pc' = [pc EXCEPT ![t] = "commit"]
            /\ UNCHANGED <<stack, nestedEnd>>
       ELSE /\ EndNested(t, "returned", NoErr, level[t], dbLog[conn[t]])
            /\ UNCHANGED <<result, issued, pc>>
  /\ UNCHANGED <<trxVars, err, outcome, poolVars, dbVars, countVars,
                 threw, caught>>

\* client.js:386-387 with transaction.js:111-114: ROLLBACK TO SAVEPOINT
\* completes; on success level is decremented and the caught error is
\* rethrown, on failure the command's error leaves the nested call
RollbackToDone(t, ok) ==
  /\ UNCHANGED appVars
  /\ pc[t] = "rollbackTo"
  /\ LET c    == conn[t]
         cmd  == Last(issued[t])
         qerr == ExecuteQueryError("ROLLBACK_TO", Len(issued[t]))
         out  == Rethrown(err[t], ok, qerr)
     IN  /\ ok => cmd.op = "ROLLBACK_TO" /\ DbSavepointIndex(dbSps[c], cmd.arg) > 0
         /\ issued' = [issued EXCEPT ![t] = SetLastStatus(@, IF ok THEN "ok" ELSE "fail")]
         /\ dbLog' = IF ok THEN [dbLog EXCEPT ![c] = DbRollbackToLog(@, dbSps[c], cmd.arg)]
                          ELSE dbLog
         /\ dbSps' = IF ok THEN [dbSps EXCEPT ![c] = DbRollbackToSps(@, cmd.arg)]
                          ELSE dbSps
         /\ level' = IF ok THEN [level EXCEPT ![t] = LevelAfterRollbackTo(@)] ELSE level
         /\ err' = [err EXCEPT ![t] = out]
         /\ EndNested(t, IF ok THEN "rolledBack" ELSE "rollbackFailed", out,
                      level'[t], dbLog'[c])
  /\ pc' = [pc EXCEPT ![t] = "raised"]
  /\ UNCHANGED <<conn, result, outcome, poolVars, countVars, threw, caught>>

Next ==
  \/ \E t \in Calls, c \in Conns : Acquire(t, c)
  \/ \E t \in Calls : AcquireFail(t)
  \/ \E t \in Calls, ok \in BOOLEAN : BeginDone(t, ok)
  \/ \E t \in Calls : IssueStatement(t)
  \/ \E t \in Calls, ok \in BOOLEAN : StatementDone(t, ok)
  \/ \E t \in Calls : EnterNested(t)
  \/ \E t \in Calls, ok \in BOOLEAN : SavepointDone(t, ok)
  \/ \E t \in Calls, v \in Values : CallbackReturn(t, v)
  \/ \E t \in Calls : CallbackThrow(t)
  \/ \E t \in Calls : CallbackCatch(t)
  \/ \E t \in Calls : CallbackPropagate(t)
  \/ \E t \in Calls, ok \in BOOLEAN : RollbackToDone(t, ok)
  \/ \E t \in Calls, ok \in BOOLEAN : CommitDone(t, ok)
  \/ \E t \in Calls, ok \in BOOLEAN : RollbackDone(t, ok)

Spec == Init /\ [][Next]_vars

\* ---- statements outside the handle, and statements that are not awaited ----

\* the application of the concurrency claims: one transaction() call on a pool
\* of two connections whose callbacks may start statements without awaiting
\* them, and meanwhile a flow of db.query(...) calls made on the client, each
\* awaited before the next
ConcPlans == { [pool |-> Conns,
                calls |-> [t \in Calls |-> IF t = 1 THEN Workload(PairOps)
                                                    ELSE NotMade]] }

InitConc ==
  /\ TxInit(ConcPlans)
  /\ qpc = "idle"
  /\ qconn = NoConn
  /\ qleft = MaxQueries
  /\ loose = [t \in Calls |-> t = 1]
  /\ PureOff

\* the call is waiting for the last command of `issued`
Awaiting(t) ==
  pc[t] \in {"begin", "stmt", "savepoint", "rollbackTo", "commit", "rollback"}

PoolQueryConnection_transactionFirst(idle, busy) ==
  IF busy # {} THEN busy ELSE idle

\* client.js:367-370: query() hands the statement to _executeQuery with
\* this.pool as its connection, so the pool runs it on one of its idle
\* connections, whatever transaction is open
PoolQueryConnection(idle, busy) == idle

\* db.query(...) / db.table(...).get() on the client: client.js:367-370 and
\* 433, pool.query(finalSql, finalBindings) starts on a pooled connection
ClientQuery(c) ==
  /\ UNCHANGED pureVars
  /\ qpc = "idle"
  /\ qleft > 0
  /\ c \in PoolQueryConnection(free, Busy)
  /\ qpc' = "inflight"
  /\ qconn' = c
  /\ qleft' = qleft - 1
  /\ free' = free \ {c}
  /\ UNCHANGED <<plan, pc, trxVars, stack, err, result, outcome, issued,
                 releases, held, dbVars, nops, ghostVars, loose>>

\* client.js:433-438: the statement completes (rows, or a QueryError) and the
\* pool has its connection back
ClientQueryDone ==
  /\ UNCHANGED pureVars
  /\ qpc = "inflight"
  /\ qpc' = "idle"
  /\ qconn' = NoConn
  /\ free' = free \cup {qconn}
  /\ UNCHANGED <<plan, pc, trxVars, stack, err, result, outcome, issued,
                 releases, held, dbVars, nops, ghostVars, loose, qleft>>

\* the callback calls trx.query / a trx.table(..) terminal operation and does
\* not await the promise (e.g. an element of Promise.all):
\* transaction.js:49-53 calls _executeQuery, which calls connection.query at
\* once (client.js:433)
StartStatement(t) ==
  /\ UNCHANGED pureVars
  /\ pc[t] = "body"
  /\ loose[t]
  /\ nops[t] < plan.calls[t].ops
  /\ nops' = [nops EXCEPT ![t] = @ + 1]
  /\ issued' = [issued EXCEPT ![t] = Append(@, Cmd("STMT", 0, conn[t]))]
  /\ UNCHANGED <<plan, pc, trxVars, stack, err, result, outcome, poolVars,
                 dbVars, ghostVars, concVars>>

\* a statement nobody awaits completes on its connection
LooseDone(t, ok) ==
  /\ UNCHANGED pureVars
  /\ \E i \in 1..Len(issued[t]) :
       /\ issued[t][i].st = "inflight"
       /\ ~(Awaiting(t) /\ i = Len(issued[t]))
       /\ issued' = [issued EXCEPT ![t][i].st = IF ok THEN "ok" ELSE "fail"]
       /\ dbLog' = IF ok /\ issued[t][i].conn \in held[t]
                     THEN [dbLog EXCEPT ![issued[t][i].conn] = Append(@, <<t, i>>)]
                     ELSE dbLog
  /\ UNCHANGED <<plan, pc, trxVars, stack, err, result, outcome, poolVars,
                 dbSps, nops, ghostVars, concVars>>

NextConc ==
  \/ Next
  \/ \E c \in Conns : ClientQuery(c)
  \/ ClientQueryDone
  \/ \E t \in Calls : StartStatement(t)
  \/ \E t \in Calls, ok \in BOOLEAN : LooseDone(t, ok)

SpecConc == InitConc /\ [][NextConc]_vars

\* ---- the placeholder rewrite (lib/utils/parameter-handler.js) and the ----
\* ---- hand-over to the driver (client.js:413-439)                      ----

\* A SQL string is the sequence of its pieces: canonical `?` markers, native
\* markers and stretches of other text.
Marker(m, n) == [m |-> m, n |-> n]
Canonical == Marker("?", 0)
Text      == Marker("text", 0)

SqlStrings == UNION {[1..n -> {Canonical, Text}] : n \in 0..MaxSqlLen}

\* positions of the pieces of `sql` that are not plain text, left to right
RECURSIVE MarkersOf(_)
MarkersOf(sql) ==
  IF sql = <<>> THEN <<>>
  ELSE IF Head(sql) = Text THEN MarkersOf(Tail(sql))
       ELSE <<Head(sql)>> \o MarkersOf(Tail(sql))

CountCanonical(sql) == Cardinality({i \in 1..Len(sql) : sql[i] = Canonical})

\* sql.replace(/\?/g, () => { index++; return `<mark>${index}`; })
RECURSIVE ReplaceCounting(_, _, _)
ReplaceCounting(sql, mark, index) ==
  IF sql = <<>> THEN <<>>
  ELSE IF Head(sql) = Canonical
         THEN <<Marker(mark, index + 1)>> \o ReplaceCounting(Tail(sql), mark, index + 1)
         ELSE <<Head(sql)>> \o ReplaceCounting(Tail(sql), mark, index)

\* parameter-handler.js:101-108
preparePostgres(sql, bindings) ==
  [sql |-> ReplaceCounting(sql, "$", 0), bindings |-> bindings]

\* parameter-handler.js:118-125
prepareOracle(sql, bindings) ==
  [sql |-> ReplaceCounting(sql, ":", 0), bindings |-> bindings]

\* parameter-handler.js:77-91
prepare(clientType, sql, bindings) ==
  CASE clientType = "postgres" -> preparePostgres(sql, bindings)
    [] clientType = "oracle"   -> prepareOracle(sql, bindings)
    [] OTHER                   -> [sql |-> sql, bindings |-> bindings]

\* client.js:427, finalBindings.forEach((val, i) => request.input(`param${i}`, val))
RequestInputs(bindings) ==
  [i \in 1..Len(bindings) |-> [name |-> Marker("@param", i - 1), val |-> bindings[i]]]

\* client.js:428, the argument `@param${i}` of finalSql.replace: `i` is only
\* the parameter of the forEach callback of the line before and is not in
\* scope here, so evaluating the template literal throws a ReferenceError
MssqlReplacement == [thrown |-> TRUE, error |-> "ReferenceError"]

\* client.js:413-439, up to the call of the driver
ExecuteQuery(clientType, sql, bindings) ==
  LET final == prepare(clientType, sql, bindings)
  IN  IF clientType = "mssql"
        THEN IF MssqlReplacement.thrown
               THEN [status |-> "QueryError", sql |-> final.sql,
                     bindings |-> final.bindings,
                     inputs |-> RequestInputs(final.bindings)]
               ELSE [status |-> "sent", sql |-> final.sql, bindings |-> <<>>,
                     inputs |-> RequestInputs(final.bindings)]
        ELSE [status |-> "sent", sql |-> final.sql,
              bindings |-> final.bindings, inputs |-> <<>>]

\* the statements given to db.query: SQL with N canonical markers and a
\* binding for each of them
Statements ==
  {[client |-> d, sql |-> q, bindings |-> b] :
     d \in Dialects, q \in SqlStrings,
     b \in UNION {[1..n -> Values] : n \in 0..MaxSqlLen}}

WellFormed(st) == Len(st.bindings) = CountCanonical(st.sql)

InitPrepare ==
  /\ TxInit(IdlePlans)
  /\ ConcOff
  /\ stmt \in {st \in Statements : WellFormed(st)}
  /\ wire = NotSent
  /\ surfaced = NotSettled
  /\ CompOff
  /\ SchemaOff
  /\ LaterOff

\* client.js:435-438, the catch block: the QueryError the caller gets
QueryErrorOf(finalSql, finalBindings) ==
  [kind |-> "QueryError", sql |-> finalSql, bindings |-> finalBindings]

\* db.query(sql, bindings) reaches the driver, or rejects before it does
Execute ==
  /\ wire = NotSent
  /\ wire' = ExecuteQuery(stmt.client, stmt.sql, stmt.bindings)
  /\ surfaced' = IF wire'.status = "QueryError"
                   THEN QueryErrorOf(wire'.sql, wire'.bindings)
                   ELSE NotSettled
  /\ UNCHANGED <<txVars, concVars, stmt, compVars, schemaVars, laterVars>>

\* client.js:433-434, the driver returns the rows
DriverReturns ==
  /\ wire.status = "sent"
  /\ surfaced = NotSettled
  /\ surfaced' = [kind |-> "rows", sql |-> <<>>, bindings |-> <<>>]
  /\ UNCHANGED <<txVars, concVars, stmt, wire, compVars, schemaVars, laterVars>>

\* client.js:433 and 435-438, the driver rejects the statement
DriverRejects ==
  /\ wire.status = "sent"
  /\ surfaced = NotSettled
  /\ LET final == prepare(stmt.client, stmt.sql, stmt.bindings)
     IN  surfaced' = QueryErrorOf(final.sql, final.bindings)
  /\ UNCHANGED <<txVars, concVars, stmt, wire, compVars, schemaVars, laterVars>>

NextPrepare == Execute \/ DriverReturns \/ DriverRejects

SpecPrepare == InitPrepare /\ [][NextPrepare]_vars

\* ---- the query builder (lib/query/builder.js) and its grammars ----

\* Compiled SQL is the sequence of its clauses; a clause is a keyword and its
\* items; an item is a column, a word, a number or a placeholder.
NoMark == Marker("none", 0)
Item(column, word, num, mark) ==
  [column |-> column, word |-> word, num |-> num, mark |-> mark]
Clause(kw, items) == [kw |-> kw, items |-> items]

\* a part that is '' or null, which parts.filter(part => part) drops
NoClause == Clause("", <<>>)

\* parts.filter(part => part).join(' ')
Concatenate(parts) == SelectSeq(parts, LAMBDA part : part # NoClause)

\* the placeholders of a clause sequence, left to right, each with the
\* clause it is in and its position among the items of that clause
RECURSIVE ItemMarks(_, _, _)
ItemMarks(kw, items, j) ==
  IF j > Len(items) THEN <<>>
  ELSE IF items[j].mark = NoMark THEN ItemMarks(kw, items, j + 1)
       ELSE <<[kw |-> kw, pos |-> j, mark |-> items[j].mark,
               column |-> items[j].column]>> \o ItemMarks(kw, items, j + 1)

RECURSIVE Placeholders(_)
Placeholders(sql) ==
  IF sql = <<>> THEN <<>>
  ELSE ItemMarks(Head(sql).kw, Head(sql).items, 1) \o Placeholders(Tail(sql))

\* the value held by one cell of the caller's data: its origin identifies it
CellValue(kind, row, col) == [of |-> kind, row |-> row, col |-> col]

\* a data object with the keys 1..c, in that iteration order
DataObject(row, c) == [j \in 1..c |-> [key |-> j, val |-> CellValue("data", row, j)]]

\* insert(data) / update(data) arguments: one object, or an array of objects
\* with the same keys
OneObject(c) == [isArray |-> FALSE, rows |-> <<DataObject(1, c)>>]
ArrayOf(k, c) == [isArray |-> TRUE, rows |-> [r \in 1..k |-> DataObject(r, c)]]

UpdateData == {OneObject(c) : c \in 1..MaxCols}
InsertData == UpdateData \cup {ArrayOf(k, c) : k \in 1..MaxRows, c \in 1..MaxCols}

\* Object.keys(data): the keys of an object, the indices of an array
ObjectKeys(data) ==
  IF data.isArray THEN [r \in 1..Len(data.rows) |-> r - 1]
  ELSE [j \in 1..Len(data.rows[1]) |-> data.rows[1][j].key]

\* Object.values(object)
ObjectValues(object) == [j \in 1..Len(object) |-> object[j].val]

\* data.flatMap(Object.values)
RECURSIVE FlatMapValues(_)
FlatMapValues(rows) ==
  IF rows = <<>> THEN <<>>
  ELSE ObjectValues(Head(rows)) \o FlatMapValues(Tail(rows))

\* builder.js:74-91, the entries where() pushes
Wheres(n) == [i \in 1..n |-> [column |-> i, operator |-> "=",
                             value |-> CellValue("where", 0, i), type |-> "and"]]

PageSize == 5

\* the builders an application can have when it calls a terminal operation:
\* table(), then any of select(), where(), orderBy(), limit(), offset(),
\* returning() (builder.js:43-132)
Builders ==
  [select : {<<"*">>, <<"id">>}, from : {"users"},
   where : {Wheres(n) : n \in 0..MaxWheres},
   orderBy : {<<>>, <<[column |-> "id", direction |-> "asc"]>>},
   limit : {Null, PageSize}, offset : {Null, PageSize},
   returning : {<<>>, <<"id">>}]

\* base-grammar.js:41-43
compileFrom(tableName) == Clause("from", <<Item(tableName, "", 0, NoMark)>>)

\* base-grammar.js:50-61
compileWheres(wheres) ==
  IF Len(wheres) = 0 THEN NoClause
  ELSE Clause("where", [i \in 1..Len(wheres) |->
         Item(wheres[i].column, wheres[i].operator, 0, Canonical)])

\* compileSelectCore of the grammars' base class
compileSelectCore(columns) ==
  Clause("select", [i \in 1..Len(columns) |-> Item(columns[i], "", 0, NoMark)])

\* compileOrderBy of the grammars' base class
compileOrderBy(orders) ==
  IF Len(orders) = 0 THEN NoClause
  ELSE Clause("order by", [i \in 1..Len(orders) |->
         Item(orders[i].column, orders[i].direction, 0, NoMark)])

\* columnize of the grammars' base class
columnize(columns) == [i \in 1..Len(columns) |-> Item(columns[i], "", 0, NoMark)]

\* parameterize of the grammars' base class: a placeholder for each key
parameterize(data) ==
  [i \in 1..Len(ObjectKeys(data)) |-> Item(ObjectKeys(data)[i], "", 0, Canonical)]

\* part_001:54-59, mysql-grammar.js:70-75 (limit n);
\* mssql-grammar.js:77-83, base-grammar.js:272-277 (fetch next n rows only)
compileLimit(dialect, limit) ==
  IF limit = Null THEN NoClause
  ELSE Clause(IF dialect \in {"mssql", "oracle"} THEN "fetch" ELSE "limit",
              <<Item("", "", limit, NoMark)>>)

\* part_001:67-72, mysql-grammar.js:83-88, mssql-grammar.js:91-97,
\* base-grammar.js:259-264
compileOffset(dialect, offset) ==
  IF offset = Null THEN NoClause
  ELSE Clause("offset", <<Item("", "", offset, NoMark)>>)

\* ` returning ${this.columnize(returning)}` when builder._statements.returning
\* is set (part_001:90-93, 113-116, 134-137)
compileReturning(dialect, returning) ==
  IF dialect = "postgres" /\ returning # <<>>
    THEN Clause("returning", columnize(returning))
    ELSE NoClause

InjectedOrder == [column |-> "(SELECT NULL)", direction |-> "ASC"]

\* mssql-grammar.js:51-53: the fallback ordering is pushed into the builder's
\* own orderBy array
MssqlOrderBy(st) ==
  IF (st.offset # Null \/ st.limit # Null) /\ Len(st.orderBy) = 0
    THEN Append(st.orderBy, InjectedOrder)
    ELSE st.orderBy

\* base-grammar.js:235-238: console.warn, nothing else
OracleWarns(st) == (st.offset # Null \/ st.limit # Null) /\ Len(st.orderBy) = 0

SelectParts_paginationFirst(dialect, st) ==
  <<compileSelectCore(st.select), compileFrom(st.from), compileWheres(st.where),
    compileOffset(dialect, st.offset), compileLimit(dialect, st.limit),
    compileOrderBy(st.orderBy)>>

\* the parts array of compileSelect: part_001:34-43, mysql-grammar.js:50-59
\* (limit, then offset); mssql-grammar.js:56-65, base-grammar.js:240-249
\* (offset, then fetch)
SelectParts(dialect, st) ==
  <<compileSelectCore(st.select), compileFrom(st.from), compileWheres(st.where),
    compileOrderBy(st.orderBy)>>
  \o (IF dialect \in {"mssql", "oracle"}
        THEN <<compileOffset(dialect, st.offset), compileLimit(dialect, st.limit)>>
        ELSE <<compileLimit(dialect, st.limit), compileOffset(dialect, st.offset)>>)

\* compileSelect(builder): part_001:31-46, mysql-grammar.js:47-62,
\* mssql-grammar.js:46-68, base-grammar.js:229-252.  The result carries the
\* builder's statements as the call leaves them.
compileSelect(dialect, st) ==
  LET after == IF dialect = "mssql" THEN [st EXCEPT !.orderBy = MssqlOrderBy(st)]
                                    ELSE st
  IN  [sql |-> Concatenate(SelectParts(dialect, after)),
       statements |-> after,
       warned |-> dialect = "oracle" /\ OracleWarns(st)]

\* the placeholders of compileInsert: base-grammar.js:163 (mysql, mssql),
\* part_001:85 (postgres), base-grammar.js:290 (oracle, `:${i + 1}`)
InsertPlaceholders(dialect, data) ==
  IF dialect = "oracle"
    THEN [i \in 1..Len(ObjectKeys(data)) |->
            Item(ObjectKeys(data)[i], "", 0, Marker(":", i))]
    ELSE parameterize(data)

\* compileInsert: base-grammar.js:161-167, part_001:82-96,
\* base-grammar.js:287-292
compileInsert(dialect, st, data) ==
  Concatenate(<<Clause("insert into", <<Item(st.from, "", 0, NoMark)>>),
                Clause("columns", columnize(ObjectKeys(data))),
                Clause("values", InsertPlaceholders(dialect, data)),
                compileReturning(dialect, st.returning)>>)

\* the where part of OracleGrammar.compileUpdate, base-grammar.js:323-328
OracleUpdateWheres(wheres, ndata) ==
  IF Len(wheres) = 0 THEN NoClause
  ELSE Clause("where", [i \in 1..Len(wheres) |->
         Item(wheres[i].column, wheres[i].operator, 0, Marker(":", ndata + i))])

\* compileUpdate(builder, data): part_001:106-119, mysql-grammar.js:98-107,
\* mssql-grammar.js:108-118, base-grammar.js:317-331
compileUpdate(dialect, st, data) ==
  LET keys == ObjectKeys(data)
  IN  Concatenate(
        <<Clause("update", <<Item(st.from, "", 0, NoMark)>>),
          Clause("set", [i \in 1..Len(keys) |->
             Item(keys[i], "=", 0,
                  IF dialect = "oracle" THEN Marker(":", i) ELSE Canonical)]),
          IF dialect = "oracle" THEN OracleUpdateWheres(st.where, Len(keys))
                                ELSE compileWheres(st.where),
          compileReturning(dialect, st.returning)>>)

\* compileDelete(builder): part_001:128-140, mssql-grammar.js:128-132,
\* base-grammar.js:190-194
compileDelete(dialect, st) ==
  Concatenate(<<Clause("delete from", <<Item(st.from, "", 0, NoMark)>>),
                compileWheres(st.where),
                compileReturning(dialect, st.returning)>>)

GetBindingsFor_whereFirst(st, method, updateData) ==
  [i \in 1..Len(st.where) |-> st.where[i].value]
  \o (IF method = "update" THEN ObjectValues(updateData.rows[1]) ELSE <<>>)

\* builder.js:197-204
GetBindingsFor(st, method, updateData) ==
  (IF method = "update" THEN ObjectValues(updateData.rows[1]) ELSE <<>>)
  \o [i \in 1..Len(st.where) |-> st.where[i].value]

\* builder.js:164
InsertBindings(data) ==
  IF data.isArray THEN FlatMapValues(data.rows) ELSE ObjectValues(data.rows[1])

InitCompile ==
  /\ TxInit(IdlePlans)
  /\ ConcOff
  /\ PrepOff
  /\ grammar \in Dialects
  /\ statements \in Builders
  /\ given = NoStatements
  /\ compiled = NotCompiled
  /\ ncompiled = 0
  /\ SchemaOff
  /\ LaterOff

\* a terminal operation hands the builder to the grammar and the result to
\* client.query
Terminal(op, arg, before, after, sql, bindings, warned) ==
  /\ ncompiled' = ncompiled + 1
  /\ given' = before
  /\ statements' = after
  /\ compiled' = [op |-> op, arg |-> arg, sql |-> sql, bindings |-> bindings,
                   warned |-> warned]
  /\ UNCHANGED <<txVars, concVars, prepVars, grammar, schemaVars, laterVars>>

\* builder.js:140-144
Get ==
  /\ ncompiled < MaxCompiles
  /\ LET c == compileSelect(grammar, statements)
     IN  Terminal("select", NoData, statements, c.statements, c.sql,
                  GetBindingsFor(c.statements, "select", NoData), c.warned)

\* builder.js:150-154: limit(1), then get()
First ==
  /\ ncompiled < MaxCompiles
  /\ LET limited == [statements EXCEPT !.limit = 1]
         c == compileSelect(grammar, limited)
     IN  Terminal("first", NoData, limited, c.statements, c.sql,
                  GetBindingsFor(c.statements, "select", NoData), c.warned)

\* builder.js:161-166
Insert(data) ==
  /\ ncompiled < MaxCompiles
  /\ Terminal("insert", data, statements, statements,
              compileInsert(grammar, statements, data), InsertBindings(data), FALSE)

\* builder.js:173-178
Update(data) ==
  /\ ncompiled < MaxCompiles
  /\ Len(ObjectKeys(data)) # 0
  /\ Terminal("update", data, statements, statements,
              compileUpdate(grammar, statements, data),
              GetBindingsFor(statements, "update", data), FALSE)

\* builder.js:184-188
Delete ==
  /\ ncompiled < MaxCompiles
  /\ Terminal("delete", NoData, statements, statements, compileDelete(grammar, statements),
              GetBindingsFor(statements, "delete", NoData), FALSE)

NextCompile ==
  \/ Get
  \/ First
  \/ \E data \in InsertData : Insert(data)
  \/ \E data \in UpdateData : Update(data)
  \/ Delete

SpecCompile == InitCompile /\ [][NextCompile]_vars

\* ---- the Oracle schema grammar (lib/schema/grammars/oracle-schema-grammar.js) ----
\* ---- and the schema builder that runs its commands (lib/schema/builder.js)   ----

\* oracle-schema-grammar.js:170 and 186, the lengths of the table-name
\* prefixes kept in sequence and trigger names
SeqPrefixLen == 25
TriggerPrefixLen == 21

\* oracle-schema-grammar.js:63, the errors the guarded drop swallows
OraTableNotFound == 942
OraSequenceNotFound == 2289

\* a name is the sequence of its characters
Repeat(ch, n) == [i \in 1..n |-> ch]

\* table names around the two prefix lengths
TableNames ==
  {Repeat("a", n) : n \in {1, TriggerPrefixLen, TriggerPrefixLen + 1,
                           SeqPrefixLen, SeqPrefixLen + 1}}

\* value.substring(0, n)
Substring(name, n) == SubSeq(name, 1, IF Len(name) < n THEN Len(name) ELSE n)

UpperChar(ch) == IF ch = "a" THEN "A" ELSE ch

\* value.toUpperCase()
ToUpperCase(name) == [i \in 1..Len(name) |-> UpperChar(name[i])]

\* oracle-schema-grammar.js:168-171
GetSequenceName(name) == ToUpperCase(Substring(name, SeqPrefixLen) \o <<"_", "s", "e", "q">>)

\* oracle-schema-grammar.js:186
GetTriggerName(name) == ToUpperCase(Substring(name, TriggerPrefixLen) \o <<"_", "b", "i", "r">>)

ColumnTypes == {"increments", "bigIncrements", "string", "json"}

\* the column definitions a createTable callback leaves in tableBuilder._columns
TableDefinitions ==
  UNION {[1..n -> ColumnTypes] : n \in 1..MaxTableCols}

Column(i, type) == [name |-> i, type |-> type]
ColumnsOf(def) == [i \in 1..Len(def) |-> Column(i, def[i])]

\* oracle-schema-grammar.js:106-130; "unsupported" stands for the throw of
\* the default branch
GetType(column) ==
  CASE column.type = "increments"    -> "number(10, 0)"
    [] column.type = "bigIncrements" -> "number(20, 0)"
    [] column.type = "string"        -> "varchar2"
    [] column.type = "text"          -> "clob"
    [] column.type = "integer"       -> "number(10, 0)"
    [] column.type = "bigInteger"    -> "number(20, 0)"
    [] column.type = "boolean"       -> "number(1, 0)"
    [] column.type = "decimal"       -> "number"
    [] column.type \in {"timestamp", "timestamptz"} -> "timestamp"
    [] OTHER                         -> "unsupported"

\* mysql-schema-grammar.js:96-121
MySqlGetType(column) ==
  CASE column.type = "increments"    -> "int unsigned"
    [] column.type = "bigIncrements" -> "bigint unsigned"
    [] column.type = "string"        -> "varchar"
    [] column.type = "text"          -> "text"
    [] column.type = "integer"       -> "int"
    [] column.type = "bigInteger"    -> "bigint"
    [] column.type = "boolean"       -> "tinyint(1)"
    [] column.type = "decimal"       -> "decimal"
    [] column.type \in {"timestamp", "timestamptz"} -> "timestamp"
    [] OTHER                         -> "unsupported"

\* mssql-schema-grammar.js:87-111
MssqlGetType(column) ==
  CASE column.type = "increments"    -> "int identity(1,1)"
    [] column.type = "bigIncrements" -> "bigint identity(1,1)"
    [] column.type = "string"        -> "nvarchar"
    [] column.type = "text"          -> "nvarchar(max)"
    [] column.type = "integer"       -> "int"
    [] column.type = "bigInteger"    -> "bigint"
    [] column.type = "boolean"       -> "bit"
    [] column.type = "decimal"       -> "decimal"
    [] column.type \in {"timestamp", "timestamptz"} -> "datetime2"
    [] OTHER                         -> "unsupported"

\* this.grammar._getType(column) of the client's schema grammar
GetTypeOf(dialect, column) ==
  CASE dialect = "mysql" -> MySqlGetType(column)
    [] dialect = "mssql" -> MssqlGetType(column)
    [] OTHER             -> GetType(column)

\* oracle-schema-grammar.js:93-100
GetColumns(columns) ==
  [i \in 1..Len(columns) |-> [name |-> columns[i].name, type |-> GetType(columns[i])]]

\* oracle-schema-grammar.js:29, _columns.find(...): the position of the first
\* auto-increment column, 0 when there is none
RECURSIVE FindIncrements(_, _)
FindIncrements(columns, i) ==
  IF i > Len(columns) THEN 0
  ELSE IF columns[i].type \in {"increments", "bigIncrements"} THEN i
       ELSE FindIncrements(columns, i + 1)

\* oracle-schema-grammar.js:177-179
CompileCreateSequence(sequenceName) ==
  [kind |-> "create sequence", name |-> sequenceName, table |-> <<>>,
   columns |-> <<>>, column |-> 0, sequence |-> <<>>]

TriggerSequence_ofTriggerPrefix(name, sequenceName) ==
  GetSequenceName(Substring(name, TriggerPrefixLen))

\* oracle-schema-grammar.js:193, the sequence whose nextval the trigger takes
TriggerSequence(name, sequenceName) == sequenceName

\* oracle-schema-grammar.js:185-197
CompileCreateTrigger(name, columnName, sequenceName) ==
  [kind |-> "create trigger", name |-> GetTriggerName(name), table |-> name,
   columns |-> <<>>, column |-> columnName,
   sequence |-> TriggerSequence(name, sequenceName)]

\* oracle-schema-grammar.js:21-37
CompileCreateTable(name, columns) ==
  LET cols == GetColumns(columns)
      inc  == FindIncrements(columns, 1)
      createTableSql == [kind |-> "create table", name |-> name, table |-> name,
                         columns |-> cols, column |-> 0, sequence |-> <<>>]
  IN  IF \E i \in 1..Len(cols) : cols[i].type = "unsupported"
        THEN [thrown |-> TRUE, commands |-> <<>>]
        ELSE [thrown |-> FALSE,
              commands |->
                IF inc # 0
                  THEN <<createTableSql,
                         CompileCreateSequence(GetSequenceName(name)),
                         CompileCreateTrigger(name, columns[inc].name,
                                              GetSequenceName(name))>>
                  ELSE <<createTableSql>>]

\* mysql-schema-grammar.js:20-30 and mssql-schema-grammar.js:21-30, one
\* create table statement (the table definition holds no index command)
CompileCreateTableOf(dialect, name, columns) ==
  LET cols == [i \in 1..Len(columns) |->
                 [name |-> columns[i].name, type |-> GetTypeOf(dialect, columns[i])]]
  IN  IF dialect = "oracle" THEN CompileCreateTable(name, columns)
      ELSE IF \E i \in 1..Len(cols) : cols[i].type = "unsupported"
        THEN [thrown |-> TRUE, commands |-> <<>>]
        ELSE [thrown |-> FALSE,
              commands |-> <<[kind |-> "create table", name |-> name,
                              table |-> name, columns |-> cols, column |-> 0,
                              sequence |-> <<>>]>>]

\* the database runs one command of createTable: the objects it leaves and
\* its sqlcode (ORA-00955: the name is already used by an existing object)
RunCommand(cmd, tbls, seqs) ==
  CASE cmd.kind = "create table" ->
         IF cmd.name \in tbls
           THEN [tables |-> tbls, sequences |-> seqs, sqlcode |-> 0 - 955]
           ELSE [tables |-> tbls \cup {cmd.name}, sequences |-> seqs, sqlcode |-> 0]
    [] cmd.kind = "create sequence" ->
         IF cmd.name \in seqs
           THEN [tables |-> tbls, sequences |-> seqs, sqlcode |-> 0 - 955]
           ELSE [tables |-> tbls, sequences |-> seqs \cup {cmd.name}, sqlcode |-> 0]
    [] OTHER -> [tables |-> tbls, sequences |-> seqs, sqlcode |-> 0]

\* builder.js:101-109, _runSql: the commands are awaited one after the other;
\* the first that fails rejects the operation; sent counts the commands
\* passed to client.query
RECURSIVE RunSql(_, _, _)
RunSql(commands, tbls, seqs) ==
  IF commands = <<>>
    THEN [tables |-> tbls, sequences |-> seqs, sqlcode |-> 0, sent |-> 0]
    ELSE LET r == RunCommand(Head(commands), tbls, seqs)
             rest == RunSql(Tail(commands), r.tables, r.sequences)
         IN  IF r.sqlcode # 0
               THEN [tables |-> r.tables, sequences |-> r.sequences,
                     sqlcode |-> r.sqlcode, sent |-> 1]
               ELSE [rest EXCEPT !.sent = rest.sent + 1]

\* errors of the database other than the two the guarded drop knows
OtherSqlCodes == {0 - 54, 0 - 1031}

\* a failure of the n-th `execute immediate` of the block for a reason of the
\* database's own (at = 0: none)
Faults == {[at |-> 0, sqlcode |-> 0]}
          \cup [at : {1, 2}, sqlcode : OtherSqlCodes]

DropHandler_swallowAll(sqlcode) == 0

\* oracle-schema-grammar.js:61-65, `when others`: what the block raises
DropHandler(sqlcode) ==
  IF sqlcode # 0 - OraTableNotFound /\ sqlcode # 0 - OraSequenceNotFound
    THEN sqlcode ELSE 0

\* oracle-schema-grammar.js:54-68, the block run by the database: the two
\* `execute immediate` in order, the first error going to the handler
DropBlock(name, tbls, seqs, fault) ==
  LET seq   == GetSequenceName(name)
      code1 == IF fault.at = 1 THEN fault.sqlcode
               ELSE IF name \in tbls THEN 0 ELSE 0 - OraTableNotFound
      code2 == IF fault.at = 2 THEN fault.sqlcode
               ELSE IF seq \in seqs THEN 0 ELSE 0 - OraSequenceNotFound
  IN  IF code1 # 0
        THEN [tables |-> tbls, sequences |-> seqs,
              sqlcode |-> code1, raised |-> DropHandler(code1)]
        ELSE IF code2 # 0
               THEN [tables |-> tbls \ {name}, sequences |-> seqs,
                     sqlcode |-> code2, raised |-> DropHandler(code2)]
               ELSE [tables |-> tbls \ {name}, sequences |-> seqs \ {seq},
                     sqlcode |-> 0, raised |-> 0]

\* mysql-schema-grammar.js:46-48 and mssql-schema-grammar.js:46-49, the one
\* statement of the other dialects: it drops the table when there is one
DropIfExists(name, tbls, seqs, fault) ==
  IF fault.at = 1
    THEN [tables |-> tbls, sequences |-> seqs,
          sqlcode |-> fault.sqlcode, raised |-> fault.sqlcode]
    ELSE [tables |-> tbls \ {name}, sequences |-> seqs,
          sqlcode |-> 0, raised |-> 0]

\* client.js:219-231, the dialects whose schema grammar is in the repository
SchemaDialects == {"mysql", "mssql", "oracle"}

\* the class of the error a createTable call rejects with
CreateError(thrown, sqlcode) ==
  IF thrown THEN "Error" ELSE IF sqlcode # 0 THEN "QueryError" ELSE "none"

InitSchema ==
  /\ TxInit(IdlePlans)
  /\ ConcOff
  /\ PrepOff
  /\ CompOff
  /\ schemaGrammar \in SchemaDialects
  /\ onTable \in TableNames
  /\ tables = {}
  /\ sequences = {}
  /\ ddl = NoDdl
  /\ nddl = 0
  /\ LaterOff

\* builder.js:31-37, schema.createTable(onTable, callback)
CreateTable(def) ==
  /\ nddl < MaxDdl
  /\ nddl' = nddl + 1
  /\ LET c == CompileCreateTableOf(schemaGrammar, onTable, ColumnsOf(def))
         r == RunSql(c.commands, tables, sequences)
     IN  /\ tables' = r.tables
         /\ sequences' = r.sequences
         /\ ddl' = [op |-> "createTable", columns |-> ColumnsOf(def),
                    thrown |-> c.thrown,
                    commands |-> c.commands, sent |-> r.sent,
                    error |-> CreateError(c.thrown, r.sqlcode),
                    existed |-> onTable \in tables,
                    faultAt |-> 0, sqlcode |-> r.sqlcode, raised |-> r.sqlcode,
                    prevOp |-> ddl.op, prevRaised |-> ddl.raised,
                    prevExisted |-> ddl.existed]
  /\ UNCHANGED <<txVars, concVars, prepVars, compVars, schemaGrammar, onTable,
                 laterVars>>

\* builder.js:68-71, schema.dropTableIfExists(onTable)
DropTableIfExists(fault) ==
  /\ nddl < MaxDdl
  /\ nddl' = nddl + 1
  /\ fault.at = 2 => schemaGrammar = "oracle"
  /\ LET r == IF schemaGrammar = "oracle"
                THEN DropBlock(onTable, tables, sequences, fault)
                ELSE DropIfExists(onTable, tables, sequences, fault)
     IN  /\ tables' = r.tables
         /\ sequences' = r.sequences
         /\ ddl' = [op |-> "dropTableIfExists", columns |-> <<>>,
                    thrown |-> FALSE,
                    commands |-> <<>>, sent |-> 1,
                    error |-> IF r.raised # 0 THEN "QueryError" ELSE "none",
                    existed |-> onTable \in tables,
                    faultAt |-> fault.at, sqlcode |-> r.sqlcode, raised |-> r.raised,
                    prevOp |-> ddl.op, prevRaised |-> ddl.raised,
                    prevExisted |-> ddl.existed]
  /\ UNCHANGED <<txVars, concVars, prepVars, compVars, schemaGrammar, onTable,
                 laterVars>>

NextSchema ==
  \/ \E def \in TableDefinitions : CreateTable(def)
  \/ \E fault \in Faults : DropTableIfExists(fault)

SpecSchema == InitSchema /\ [][NextSchema]_vars

\* ---- one column compiled by a schema grammar (_getColumns) ----

\* mysql-schema-grammar.js:461-465 and 479-488 (the table builder): the
\* definitions its column methods and modifiers can leave; increments and
\* bigIncrements always call primary()
ColumnNames == {"name", "updated_at"}
StringValue(text) == [typeof |-> "string", text |-> text]
BooleanValue(text) == [typeof |-> "boolean", text |-> text]
DefaultValues == {Undefined, StringValue("x"), StringValue("now()"),
                  BooleanValue("true")}

ColumnDefinitions ==
  {c \in [name : ColumnNames, type : ColumnTypes, isNullable : BOOLEAN,
          isPrimary : BOOLEAN, isUnique : BOOLEAN, defaultValue : DefaultValues] :
     c.type \in {"increments", "bigIncrements"} => c.isPrimary}

Part(part, text) == [part |-> part, text |-> text]

\* _formatDefaultValue of the three grammars (oracle-schema-grammar.js:151-162,
\* mysql-schema-grammar.js:150-161, mssql-schema-grammar.js:132-143)
FormatDefaultValue(dialect, value) ==
  IF value.typeof = "string" THEN <<"'", value.text, "'">>
  ELSE IF value.typeof = "boolean"
    THEN (IF value.text = "true" THEN <<"1">> ELSE <<"0">>)
  ELSE <<value.text>>

PartIf(cond, part) == IF cond THEN <<part>> ELSE <<>>

\* oracle-schema-grammar.js:136-145
OracleGetModifiers(column) ==
  PartIf(column.defaultValue # Undefined,
         Part("default", FormatDefaultValue("oracle", column.defaultValue)))
  \o PartIf(column.isNullable = FALSE, Part("not null", <<>>))
  \o PartIf(column.isPrimary, Part("primary key", <<>>))
  \o PartIf(column.isUnique, Part("unique", <<>>))

\* mssql-schema-grammar.js:117-126
MssqlGetModifiers(column) ==
  PartIf(column.isNullable = FALSE, Part("not null", <<>>))
  \o PartIf(column.isPrimary, Part("primary key", <<>>))
  \o PartIf(column.isUnique, Part("unique", <<>>))
  \o PartIf(column.defaultValue # Undefined,
            Part("default", FormatDefaultValue("mssql", column.defaultValue)))

\* mysql-schema-grammar.js:140, column.defaultValue.toString() with no
\* default set
MySqlModifiersThrow(column) ==
  column.name = "updated_at" /\ column.defaultValue = Undefined

\* mysql-schema-grammar.js:127-144
MySqlGetModifiers(column) ==
  PartIf(column.isNullable = FALSE, Part("not null", <<>>))
  \o PartIf(column.isPrimary,
            Part("primary key",
                 IF column.type \in {"increments", "bigIncrements"}
                   THEN <<"auto_increment">> ELSE <<>>))
  \o PartIf(column.isUnique, Part("unique", <<>>))
  \o PartIf(column.defaultValue # Undefined,
            Part("default", FormatDefaultValue("mysql", column.defaultValue)))
  \o PartIf(column.name = "updated_at" /\ column.defaultValue.text = "now()",
            Part("on update", <<>>))

GetModifiers(dialect, column) ==
  CASE dialect = "mysql" -> MySqlGetModifiers(column)
    [] dialect = "mssql" -> MssqlGetModifiers(column)
    [] OTHER             -> OracleGetModifiers(column)

\* the callback of _columns.map in _getColumns (oracle-schema-grammar.js:94-99,
\* mysql-schema-grammar.js:76-81, mssql-schema-grammar.js:75-80)
GetColumnSql(dialect, column) ==
  IF GetTypeOf(dialect, column) = "unsupported"
    THEN [done |-> TRUE, thrown |-> "Error", parts |-> <<>>]
  ELSE IF dialect = "mysql" /\ MySqlModifiersThrow(column)
    THEN [done |-> TRUE, thrown |-> "TypeError", parts |-> <<>>]
  ELSE [done |-> TRUE, thrown |-> "none",
        parts |-> <<Part("name", <<column.name>>),
                    Part("type", <<GetTypeOf(dialect, column)>>)>>
                  \o GetModifiers(dialect, column)]

InitColumn ==
  /\ TxInit(IdlePlans)
  /\ ConcOff
  /\ PrepOff
  /\ CompOff
  /\ SchemaOff
  /\ colGrammar \in SchemaDialects
  /\ coldef \in ColumnDefinitions
  /\ colsql = NotCompiledColumn
  /\ MigOff
  /\ ManOff
  /\ ConnOff

\* _getColumns applied to the one column
CompileColumn ==
  /\ ~colsql.done
  /\ colsql' = GetColumnSql(colGrammar, coldef)
  /\ UNCHANGED <<txVars, concVars, prepVars, compVars, schemaVars, colGrammar, coldef,
                 migVars, manVars, connVars>>

NextColumn == CompileColumn

SpecColumn == InitColumn /\ [][NextColumn]_vars

\* ---- migrations (lib/migrations/migrator.js, migration-repository.js) ----

\* file names, in the order of Array.prototype.sort
Files == 1..MaxFiles

\* builder.js:43-188, the methods of a QueryBuilder
BuilderMethods ==
  {"from", "table", "select", "where", "orderBy", "limit", "offset",
   "returning", "get", "first", "insert", "update", "delete"}

\* `await builder`: a QueryBuilder has no then(), so the await gives the
\* builder itself and no statement is run
Thenable == "then" \in BuilderMethods

\* the elements of a set of files in ascending order
RECURSIVE Sorted(_)
Sorted(S) ==
  IF S = {} THEN <<>>
  ELSE LET m == CHOOSE x \in S : \A y \in S : x <= y
       IN  <<m>> \o Sorted(S \ {m})

\* the elements of a set of files in descending order
RECURSIVE SortedDesc(_)
SortedDesc(S) ==
  IF S = {} THEN <<>>
  ELSE LET m == CHOOSE x \in S : \A y \in S : x >= y
       IN  <<m>> \o SortedDesc(S \ {m})

Recorded(records) == {f \in Files : records[f] # 0}

\* part_000:80-89, repository.getRan(): results is what `await builder`
\* gives; results.map fails on a builder and the catch wraps the TypeError
GetRan(records) ==
  IF Thenable
    THEN [thrown |-> FALSE, names |-> Sorted(Recorded(records))]
    ELSE [thrown |-> TRUE, names |-> <<>>]

\* part_000:67-74, repository.getLastBatchNumber(): calls builder.max
GetLastBatchNumber(records) ==
  IF "max" \in BuilderMethods /\ Thenable
    THEN [thrown |-> FALSE,
          batch |-> CHOOSE b \in {records[f] : f \in Files} \cup {0} :
                      \A f \in Files : records[f] <= b]
    ELSE [thrown |-> TRUE, batch |-> 0]

\* part_000:58-61
GetNextBatchNumber(records) ==
  LET last == GetLastBatchNumber(records)
  IN  [thrown |-> last.thrown, batch |-> last.batch + 1]

\* part_000:97-108, repository.log(name, batch): insert() of an array of
\* one record, whose SQL names the array index as its column (builder.js
\* 161-166 with the grammar's compileInsert), which the database rejects
Log(records, file, batch) ==
  LET ins == compileInsert("postgres", [NoStatements EXCEPT !.from = "t"],
                           ArrayOf(1, 2))
  IN  IF Len(Placeholders(ins)) = Len(InsertBindings(ArrayOf(1, 2)))
        THEN [thrown |-> FALSE, records |-> [records EXCEPT ![file] = batch]]
        ELSE [thrown |-> TRUE, records |-> records]

\* part_000:115-121, repository.delete(name): calls builder.del
Delete_(records, file) ==
  IF "del" \in BuilderMethods
    THEN [thrown |-> FALSE, records |-> [records EXCEPT ![file] = 0]]
    ELSE [thrown |-> TRUE, records |-> records]

\* migrator.js:107-109 with _runUp (145-161): the pending files in order;
\* the first failure ends the loop
RECURSIVE RunUps(_, _, _, _, _)
RunUps(pending, batch, records, failing, ran) ==
  IF pending = <<>>
    THEN [status |-> "ok", file |-> 0, ran |-> ran, records |-> records]
    ELSE LET f == Head(pending)
             logged == Log(records, f, batch)
         IN  IF f \in failing
               THEN [status |-> "MigrationError", file |-> f, ran |-> ran,
                     records |-> records]
             ELSE IF logged.thrown
               THEN [status |-> "MigrationError", file |-> 0,
                     ran |-> Append(ran, f), records |-> records]
             ELSE RunUps(Tail(pending), batch, logged.records, failing,
                         Append(ran, f))

\* migrator.js:134-136 with _runDown (167-182)
RECURSIVE RunDowns(_, _, _)
RunDowns(files, records, ran) ==
  IF files = <<>>
    THEN [status |-> "ok", file |-> 0, ran |-> ran, records |-> records]
    ELSE LET f == Head(files)
             deleted == Delete_(records, f)
         IN  IF deleted.thrown
               THEN [status |-> "MigrationError", file |-> 0,
                     ran |-> Append(ran, f), records |-> records]
               ELSE RunDowns(Tail(files), deleted.records, Append(ran, f))

\* migrator.js:91-112 after ensureTableExists
LatestOf(files, failing, records) ==
  LET ran     == GetRan(records)
      pending == SelectSeq(Sorted(files),
                           LAMBDA f : \A i \in 1..Len(ran.names) : ran.names[i] # f)
      next    == GetNextBatchNumber(records)
      ups     == RunUps(pending, next.batch, records, failing, <<>>)
  IN  IF ran.thrown
        THEN [status |-> "MigrationError", file |-> 0, returned |-> <<>>,
              ran |-> <<>>, records |-> records, pending |-> <<>>, batch |-> 0]
      ELSE IF pending = <<>>
        THEN [status |-> "ok", file |-> 0, returned |-> <<>>, ran |-> <<>>,
              records |-> records, pending |-> pending, batch |-> 0]
      ELSE IF next.thrown
        THEN [status |-> "MigrationError", file |-> 0, returned |-> <<>>,
              ran |-> <<>>, records |-> records, pending |-> pending, batch |-> 0]
      ELSE [status |-> ups.status, file |-> ups.file,
            returned |-> IF ups.status = "ok" THEN pending ELSE <<>>,
            ran |-> ups.ran, records |-> ups.records, pending |-> pending,
            batch |-> next.batch]

\* migrator.js:118-139 after ensureTableExists
RollbackOf(records) ==
  LET last  == GetLastBatchNumber(records)
      files == SortedDesc({f \in Files : records[f] = last.batch})
      downs == RunDowns(files, records, <<>>)
  IN  IF last.thrown
        THEN [status |-> "MigrationError", file |-> 0, returned |-> <<>>,
              ran |-> <<>>, records |-> records, pending |-> <<>>, batch |-> 0]
      ELSE IF last.batch = 0
        THEN [status |-> "ok", file |-> 0, returned |-> <<>>, ran |-> <<>>,
              records |-> records, pending |-> <<>>, batch |-> 0]
      ELSE IF ~Thenable
        THEN [status |-> "TypeError", file |-> 0, returned |-> <<>>,
              ran |-> <<>>, records |-> records, pending |-> <<>>,
              batch |-> last.batch]
      ELSE [status |-> downs.status, file |-> downs.file,
            returned |-> IF downs.status = "ok" THEN files ELSE <<>>,
            ran |-> downs.ran, records |-> downs.records, pending |-> files,
            batch |-> last.batch]

\* part_000:36-52, ensureTableExists failing (the database refuses hasTable
\* or createTable)
TableFailure ==
  [status |-> "MigrationError", file |-> 0, returned |-> <<>>, ran |-> <<>>,
   records |-> migRecords, pending |-> <<>>, batch |-> 0]

InitMigrate ==
  /\ TxInit(IdlePlans)
  /\ ConcOff
  /\ PrepOff
  /\ CompOff
  /\ SchemaOff
  /\ ColumnOff
  /\ migFiles \in SUBSET Files
  /\ migFailing \in SUBSET migFiles
  /\ migRecords = [f \in Files |-> 0]
  /\ migLast = NoMigCall
  /\ nmig = 0
  /\ ManOff
  /\ ConnOff

MigCall(op, tableOk, r) ==
  /\ nmig' = nmig + 1
  /\ migRecords' = r.records
  /\ migLast' = [op |-> op, tableOk |-> tableOk, status |-> r.status, file |-> r.file,
                 returned |-> r.returned, ran |-> r.ran, before |-> migRecords,
                 pending |-> r.pending, batch |-> r.batch]
  /\ UNCHANGED <<txVars, concVars, prepVars, compVars, schemaVars, colVars,
                 migFiles, migFailing, manVars, connVars>>

\* migrator.js:91-112, migrator.latest()
Latest(tableOk) ==
  /\ nmig < MaxMigCalls
  /\ MigCall("latest", tableOk, IF tableOk THEN LatestOf(migFiles, migFailing, migRecords)
                       ELSE TableFailure)

\* migrator.js:118-139, migrator.rollback()
Rollback(tableOk) ==
  /\ nmig < MaxMigCalls
  /\ MigCall("rollback", tableOk, IF tableOk THEN RollbackOf(migRecords) ELSE TableFailure)

NextMigrate ==
  \/ \E tableOk \in BOOLEAN : Latest(tableOk)
  \/ \E tableOk \in BOOLEAN : Rollback(tableOk)

SpecMigrate == InitMigrate /\ [][NextMigrate]_vars

\* ---- manual transaction control (lib/client.js:155-193) ----

InitManual ==
  /\ TxInit(IdlePlans)
  /\ ConcOff
  /\ PrepOff
  /\ CompOff
  /\ SchemaOff
  /\ ColumnOff
  /\ MigOff
  /\ transactionConnection = NoConn
  /\ manHeld = {}
  /\ man = NoManCall
  /\ manLog = <<>>
  /\ nman = 0
  /\ ConnOff

ManualFinally_onlyOnSuccess(failed) == ~failed

\* client.js:173-176 and 189-192, the finally block of commit() and
\* rollback(): whether the connection is released and cleared
ManualFinally(failed) == TRUE

Event(what, c, ok) == [what |-> what, conn |-> c, ok |-> ok]

ManCall(op, before, events) ==
  /\ nman' = nman + 1
  /\ manLog' = manLog \o events
  /\ man' = [op |-> op, before |-> before,
             acquired |-> Len(SelectSeq(events, LAMBDA e : e.what = "getConnection" /\ e.ok)),
             begins |-> Len(SelectSeq(events, LAMBDA e : e.what = "beginTransaction")),
             commands |-> Len(SelectSeq(events, LAMBDA e : e.what \in {"beginTransaction", "commit", "rollback"})),
             released |-> Len(SelectSeq(events, LAMBDA e : e.what = "release")),
             failed |-> \E i \in 1..Len(events) : ~events[i].ok]
  /\ UNCHANGED <<txVars, concVars, prepVars, compVars, schemaVars, colVars, migVars,
                 connVars>>

\* client.js:155-161, beginTransaction(); acquireOk and beginOk tell
\* whether getConnection and BEGIN succeed
BeginTransaction(acquireOk, beginOk) ==
  /\ nman < MaxManual
  /\ IF transactionConnection # NoConn
       THEN /\ UNCHANGED <<transactionConnection, manHeld>>
            /\ ManCall("beginTransaction", transactionConnection, <<>>)
       ELSE IF ~acquireOk
         THEN /\ UNCHANGED <<transactionConnection, manHeld>>
              /\ ManCall("beginTransaction", NoConn,
                         <<Event("getConnection", NoConn, FALSE)>>)
         ELSE \E c \in Conns \ manHeld :
                /\ transactionConnection' = c
                /\ manHeld' = manHeld \cup {c}
                /\ ManCall("beginTransaction", NoConn,
                           <<Event("getConnection", c, TRUE),
                             Event("beginTransaction", c, beginOk)>>)

\* the end of commit() and rollback(): the command, then the finally block
EndManual(op, ok) ==
  IF transactionConnection = NoConn
    THEN /\ UNCHANGED <<transactionConnection, manHeld>>
         /\ ManCall(op, NoConn, <<>>)
    ELSE IF ManualFinally(~ok)
      THEN /\ transactionConnection' = NoConn
           /\ manHeld' = manHeld \ {transactionConnection}
           /\ ManCall(op, transactionConnection,
                      <<Event(op, transactionConnection, ok),
                        Event("release", transactionConnection, TRUE)>>)
      ELSE /\ UNCHANGED <<transactionConnection, manHeld>>
           /\ ManCall(op, transactionConnection,
                      <<Event(op, transactionConnection, ok)>>)

\* client.js:167-177, commit()
ManualCommit(ok) ==
  /\ nman < MaxManual
  /\ EndManual("commit", ok)

\* client.js:183-193, rollback()
ManualRollback(ok) ==
  /\ nman < MaxManual
  /\ EndManual("rollback", ok)

NextManual ==
  \/ \E acquireOk, beginOk \in BOOLEAN : BeginTransaction(acquireOk, beginOk)
  \/ \E ok \in BOOLEAN : ManualCommit(ok)
  \/ \E ok \in BOOLEAN : ManualRollback(ok)

SpecManual == InitManual /\ [][NextManual]_vars

\* ---- connecting (lib/client.js:299-332, 367-370, 391-394) ----

\* client.js:304-311: the pool is made synchronously for these dialects;
\* for the others (312-320) its creation is awaited
SyncPool(dialect) == dialect \in {"postgres", "mysql"}

ConnOps == {"query", "transaction", "connect"}

othersVars == <<txVars, concVars, prepVars, compVars, schemaVars, colVars, migVars,
                manVars>>

InitConnect ==
  /\ TxInit(IdlePlans)
  /\ ConcOff
  /\ PrepOff
  /\ CompOff
  /\ SchemaOff
  /\ ColumnOff
  /\ MigOff
  /\ ManOff
  /\ connDialect \in Dialects
  /\ pool = NoPool
  /\ poolsCreated = 0
  /\ cpc = [c \in Calls |-> "idle"]
  /\ cop = [c \in Calls |-> "none"]
  /\ cleft = [c \in Calls |-> MaxConnOps]
  /\ mine = [c \in Calls |-> NoPool]
  /\ used = [c \in Calls |-> NoPool]
  /\ cres = [c \in Calls |-> "none"]
  /\ failRec = NoFailure

\* client.js:369 and 393, the statement after `await this.connect()`: the
\* call runs on this.pool as it is then; connect() itself uses none
UsePool(op, p) == IF op = "connect" THEN NoPool ELSE p

\* client.js:328-331, connect() rejects: what the client holds afterwards
FailureOf(c, at, p, created, own) ==
  [happened |-> TRUE, call |-> c, at |-> at, poolAfter |-> p,
   others |-> created - (IF own # NoPool THEN 1 ELSE 0)]

\* a caller calls query(), transaction() or connect(): client.js:368, 392
\* and 300-323 run up to the first await
StartCall(c, op) ==
  /\ cpc[c] = "idle"
  /\ cleft[c] > 0
  /\ cleft' = [cleft EXCEPT ![c] = @ - 1]
  /\ cop' = [cop EXCEPT ![c] = op]
  /\ IF pool # NoPool
       THEN /\ used' = [used EXCEPT ![c] = UsePool(op, pool)]
            /\ cres' = [cres EXCEPT ![c] = "ok"]
            /\ mine' = [mine EXCEPT ![c] = NoPool]
            /\ UNCHANGED <<pool, poolsCreated, cpc>>
       ELSE IF SyncPool(connDialect)
         THEN /\ poolsCreated' = poolsCreated + 1
              /\ pool' = poolsCreated + 1
              /\ mine' = [mine EXCEPT ![c] = poolsCreated + 1]
              /\ cpc' = [cpc EXCEPT ![c] = "testing"]
              /\ used' = [used EXCEPT ![c] = NoPool]
              /\ cres' = [cres EXCEPT ![c] = "none"]
         ELSE /\ cpc' = [cpc EXCEPT ![c] = "creating"]
              /\ mine' = [mine EXCEPT ![c] = NoPool]
              /\ used' = [used EXCEPT ![c] = NoPool]
              /\ cres' = [cres EXCEPT ![c] = "none"]
              /\ UNCHANGED <<pool, poolsCreated>>
  /\ UNCHANGED <<othersVars, connDialect, failRec>>

\* client.js:314 and 319, the awaited mssql.connect / oracledb.createPool
\* settles: the pool is assigned, or connect() rejects
PoolSettles(c, ok) ==
  /\ cpc[c] = "creating"
  /\ IF ok
       THEN /\ poolsCreated' = poolsCreated + 1
            /\ pool' = poolsCreated + 1
            /\ mine' = [mine EXCEPT ![c] = poolsCreated + 1]
            /\ cpc' = [cpc EXCEPT ![c] = "testing"]
            /\ UNCHANGED <<cres, failRec>>
       ELSE /\ cpc' = [cpc EXCEPT ![c] = "idle"]
            /\ cres' = [cres EXCEPT ![c] = "ConnectionError"]
            /\ failRec' = FailureOf(c, "create", pool, poolsCreated, mine[c])
            /\ UNCHANGED <<pool, poolsCreated, mine>>
  /\ UNCHANGED <<othersVars, connDialect, cop, cleft, used>>

\* client.js:325-326, the test connection settles: connect() returns and the
\* call goes on with this.pool, or connect() rejects
TestSettles(c, ok) ==
  /\ cpc[c] = "testing"
  /\ cpc' = [cpc EXCEPT ![c] = "idle"]
  /\ IF ok
       THEN /\ used' = [used EXCEPT ![c] = UsePool(cop[c], pool)]
            /\ cres' = [cres EXCEPT ![c] = "ok"]
            /\ UNCHANGED failRec
       ELSE /\ cres' = [cres EXCEPT ![c] = "ConnectionError"]
            /\ failRec' = FailureOf(c, "test", pool, poolsCreated, mine[c])
            /\ UNCHANGED used
  /\ UNCHANGED <<othersVars, connDialect, pool, poolsCreated, cop, cleft, mine>>

NextConnect ==
  \/ \E c \in Calls, op \in ConnOps : StartCall(c, op)
  \/ \E c \in Calls, ok \in BOOLEAN : PoolSettles(c, ok)
  \/ \E c \in Calls, ok \in BOOLEAN : TestSettles(c, ok)

SpecConnect == InitConnect /\ [][NextConnect]_vars










\* ---- properties ----

Settled(t) == pc[t] \in {"resolved", "rejected"}

\* the callbacks of the call are running (top level or nested)
InCallback(t) == pc[t] \in {"body", "stmt", "raised", "savepoint", "rollbackTo"}

\* from the acquisition of the connection to its release
Active(t) == pc[t] = "begin" \/ InCallback(t) \/ pc[t] \in {"commit", "rollback"}

NoInflightBefore(s, n) == \A i \in 1..(n - 1) : s[i].st # "inflight"

\* C1: a top-level transaction() call that obtained a connection has released
\* it exactly once when it settles, whichever of BEGIN, the callback, COMMIT
\* or ROLLBACK failed, and never releases it more than once.
C1_ReleasedExactlyOnce ==
  \A t \in Calls :
    /\ releases[t] <= 1
    /\ (Settled(t) /\ conn[t] # NoConn) =>
          /\ releases[t] = 1
          /\ conn[t] \notin held[t]
          /\ conn[t] \in free \/ \E u \in Calls : conn[t] \in held[u]

\* a call rejected after both its COMMIT and the ROLLBACK that followed failed
C1_Witness ==
  \E t \in Calls :
    /\ pc[t] = "rejected" /\ releases[t] = 1
    /\ Len(issued[t]) >= 2
    /\ Last(issued[t]).op = "ROLLBACK" /\ Last(issued[t]).st = "fail"
    /\ issued[t][Len(issued[t]) - 1].op = "COMMIT"

\* C2: once the top-level callback has thrown, ROLLBACK is the one command
\* sent after it on the transaction's connection, no COMMIT is ever sent, the
\* connection is released only when the ROLLBACK attempt has completed, and
\* the call rejects.
C2_ThrowRollsBack ==
  \A t \in Calls :
    threw[t] # NoErr =>
      /\ CountOp(issued[t], "COMMIT") = 0
      /\ CountOp(issued[t], "ROLLBACK") = 1
      /\ Last(issued[t]).op = "ROLLBACK"
      /\ Last(issued[t]).conn = conn[t]
      /\ pc[t] \in {"rollback", "rejected"}
      /\ pc[t] = "rollback" => releases[t] = 0 /\ Last(issued[t]).st = "inflight"
      /\ pc[t] = "rejected" => releases[t] = 1 /\ Last(issued[t]).st # "inflight"

\* a call rejected because its callback let the error of a nested callback
\* propagate
C2_Witness ==
  \E t \in Calls :
    /\ pc[t] = "rejected"
    /\ nestedEnd[t].how = "rolledBack"
    /\ threw[t] = nestedEnd[t].thrown
    /\ threw[t].kind = "Error"

\* C3: a call resolves only with the value its callback returned, after
\* exactly one COMMIT sent last, BEGIN sent first, every earlier command
\* completed and no ROLLBACK; and it does resolve once the callback has
\* returned and COMMIT succeeded.
C3_CommitOnSuccess ==
  \A t \in Calls :
    /\ pc[t] = "resolved" =>
          /\ result[t] \in Values
          /\ outcome[t] = [value |-> result[t], error |-> NoErr]
          /\ issued[t][1].op = "BEGIN"
          /\ CountOp(issued[t], "COMMIT") = 1
          /\ Last(issued[t]).op = "COMMIT" /\ Last(issued[t]).st = "ok"
          /\ CountOp(issued[t], "ROLLBACK") = 0
          /\ NoInflightBefore(issued[t], Len(issued[t]))
    /\ (result[t] # NoValue /\ Last(issued[t]).op = "COMMIT") =>
          /\ NoInflightBefore(issued[t], Len(issued[t]))
          /\ Last(issued[t]).st = "ok" => pc[t] = "resolved"

\* a call resolved after its callback awaited two statements
C3_Witness ==
  \E t \in Calls :
    /\ pc[t] = "resolved" /\ outcome[t].value = 2
    /\ CountOp(issued[t], "STMT") = 2

\* C4: when a transaction() call, top-level or nested, rejects because BEGIN,
\* COMMIT, ROLLBACK, SAVEPOINT or ROLLBACK TO SAVEPOINT failed, the error it
\* rejects with is a TransactionError.
C4_ControlFailureIsTransactionError ==
  \A t \in Calls :
    /\ (pc[t] = "rejected" /\ outcome[t].error.op \in ControlOps) =>
          outcome[t].error.kind = "TransactionError"
    /\ nestedEnd[t].rejected.op \in ControlOps =>
          nestedEnd[t].rejected.kind = "TransactionError"

\* C5: a nested transaction() call entered when the handle's level is L sends
\* SAVEPOINT easydbg_sp_<L+1> on the handle's connection and leaves the level
\* at L+1.
C5_NestedEntry ==
  [][\A t \in Calls :
       Len(stack'[t]) = Len(stack[t]) + 1 =>
         /\ level'[t] = level[t] + 1
         /\ Len(issued'[t]) = Len(issued[t]) + 1
         /\ Last(issued'[t]) = Cmd("SAVEPOINT", level[t] + 1, conn[t])]_vars

\* a nested scope entered from inside another nested scope
C5_Witness ==
  \E t \in Calls :
    /\ pc[t] = "savepoint" /\ Len(stack[t]) = 2
    /\ Last(issued[t]).arg = Last(stack[t]).entryLevel + 1
    /\ Last(stack[t]).entryLevel >= 1

\* C6: an active top-level transaction holds exactly one pool connection, the
\* one of its handle, every command of its scopes goes to that connection,
\* and two transactions active together hold different connections.
C6_OneConnection ==
  \A t \in Calls :
    Active(t) =>
      /\ conn[t] \in Conns
      /\ held[t] = {conn[t]}
      /\ conn[t] \notin free
      /\ \A i \in 1..Len(issued[t]) : issued[t][i].conn = conn[t]
      /\ \A u \in Calls \ {t} : Active(u) => held[u] \cap held[t] = {}

\* two transactions active together, one of them inside a nested scope
C6_Witness ==
  \E t \in Calls, u \in Calls :
    /\ t # u /\ Active(t) /\ Active(u)
    /\ Len(stack[t]) >= 1 /\ pc[t] = "body"

\* C7: while the callbacks of a transaction run, nested scopes included, no
\* full ROLLBACK and no COMMIT has been sent and the connection has not been
\* released; and when the top-level callback has caught the error of a failed
\* nested scope and returned, COMMIT was the first terminal command sent.
C7_NestedFailureIsLocal ==
  \A t \in Calls :
    /\ InCallback(t) =>
          /\ CountOp(issued[t], "ROLLBACK") = 0
          /\ CountOp(issued[t], "COMMIT") = 0
          /\ releases[t] = 0
          /\ conn[t] \in held[t]
    /\ (caught[t] /\ result[t] # NoValue) =>
          \E i \in 1..Len(issued[t]) :
            /\ issued[t][i].op = "COMMIT"
            /\ \A j \in 1..(i - 1) : issued[t][j].op \notin {"COMMIT", "ROLLBACK"}

\* a transaction committed although one of its nested callbacks threw
C7_Witness ==
  \E t \in Calls :
    /\ caught[t] /\ pc[t] = "resolved"
    /\ CountOp(issued[t], "ROLLBACK_TO") >= 1

\* C8 as stated: a nested call whose callback threw E rejects with E, and a
\* top-level call whose callback let that rejection propagate rejects with E.
C8_RejectsWithOriginal ==
  \A t \in Calls :
    /\ nestedEnd[t].how \in {"rolledBack", "rollbackFailed"} =>
          nestedEnd[t].rejected = nestedEnd[t].thrown
    /\ (/\ pc[t] = "rejected"
        /\ nestedEnd[t].how \in {"rolledBack", "rollbackFailed"}
        /\ threw[t] = nestedEnd[t].rejected) =>
          outcome[t].error = nestedEnd[t].thrown

\* C8 amended: the nested call rejects with E when its ROLLBACK TO SAVEPOINT
\* succeeded and with that command's error when it failed; the top-level call
\* rejects with the error its callback threw when ROLLBACK succeeded and with
\* the ROLLBACK's error when it failed.
C8_RejectsWithOriginalUnlessRollbackFails ==
  \A t \in Calls :
    /\ nestedEnd[t].how = "rolledBack" =>
          /\ nestedEnd[t].thrown # NoErr
          /\ nestedEnd[t].rejected = nestedEnd[t].thrown
    /\ nestedEnd[t].how = "rollbackFailed" =>
          /\ nestedEnd[t].rejected.op = "ROLLBACK_TO"
          /\ nestedEnd[t].rejected # nestedEnd[t].thrown
    /\ (pc[t] = "rejected" /\ threw[t] # NoErr) =>
          IF Last(issued[t]).st = "ok"
            THEN outcome[t].error = threw[t]
            ELSE outcome[t].error.op = "ROLLBACK" /\ outcome[t].error # threw[t]
    /\ (/\ pc[t] = "rejected" /\ threw[t] # NoErr
        /\ Last(issued[t]).st = "ok"
        /\ nestedEnd[t].how = "rolledBack"
        /\ threw[t] = nestedEnd[t].rejected) =>
          outcome[t].error = nestedEnd[t].thrown

\* the error thrown by a nested callback has reached the caller of the
\* top-level transaction() unchanged
C8_Witness ==
  \E t \in Calls :
    /\ pc[t] = "rejected" /\ threw[t] # NoErr
    /\ Last(issued[t]).st = "ok"
    /\ nestedEnd[t].how = "rolledBack"
    /\ nestedEnd[t].thrown.kind = "Error"
    /\ outcome[t].error = nestedEnd[t].thrown

\* C9: the catch block of a nested scope sends ROLLBACK TO SAVEPOINT with the
\* name the scope sent in its own SAVEPOINT; when it succeeds the statements
\* in effect are exactly those that were in effect when the scope was
\* entered; and what was in effect when an open scope was entered stays in
\* effect while the scope is open.
C9_SavepointScoping ==
  \A t \in Calls :
    /\ pc[t] = "rollbackTo" =>
          Last(issued[t]) = Cmd("ROLLBACK_TO", Last(stack[t]).name, conn[t])
    /\ \A i \in 1..Len(stack[t]) :
          /\ IsPrefix(stack[t][i].entryLog, dbLog[conn[t]])
          /\ \E k \in 1..Len(issued[t]) :
               /\ issued[t][k].op = "SAVEPOINT"
               /\ issued[t][k].arg = stack[t][i].name
    /\ nestedEnd[t].how = "rolledBack" =>
          nestedEnd[t].exitLog = nestedEnd[t].entryLog

\* a nested scope undid its own statement and kept the enclosing one
C9_Witness ==
  \E t \in Calls :
    /\ nestedEnd[t].how = "rolledBack"
    /\ Len(nestedEnd[t].entryLog) = 1
    /\ nestedEnd[t].exitLog = nestedEnd[t].entryLog
    /\ CountOp(issued[t], "STMT") = 2
    /\ \A i \in 1..Len(issued[t]) : issued[t][i].op = "STMT" => issued[t][i].st = "ok"

\* C10: the level of a handle is the number of nested scopes open on it, and
\* a nested scope that has ended left the level at the value it had when the
\* scope was entered.
C10_LevelIsOpenScopes ==
  \A t \in Calls :
    /\ Active(t) => level[t] = Len(stack[t])
    /\ nestedEnd[t].how # "none" => nestedEnd[t].exitLevel = nestedEnd[t].entryLevel


\* the statements of call t in flight on connection c
InFlightOn(t, c) ==
  {i \in 1..Len(issued[t]) : issued[t][i].st = "inflight" /\ issued[t][i].conn = c}

C12_OneStatementInFlight ==
  \A t \in Calls : \A c \in Conns : Cardinality(InFlightOn(t, c)) <= 1

\* the native markers a statement with n canonical markers must show
NativeMarkers(clientType, n) ==
  [i \in 1..n |->
     CASE clientType = "postgres" -> Marker("$", i)
       [] clientType = "oracle"   -> Marker(":", i)
       [] clientType = "mssql"    -> Marker("@param", i - 1)
       [] OTHER                   -> Canonical]

\* C13: for each dialect and every N >= 0, SQL with N canonical markers
\* reaches the driver with exactly N native markers in the same left-to-right
\* order ($1..$N, ? unchanged, :1..:N, @param0..@param(N-1) each registered
\* as an input of that name with the binding of that position), and N
\* bindings.
C13_PlaceholderRoundTrip ==
  wire # NotSent =>
    LET n == CountCanonical(stmt.sql)
    IN  /\ wire.status = "sent"
        /\ MarkersOf(wire.sql) = NativeMarkers(stmt.client, n)
        /\ IF stmt.client = "mssql"
             THEN wire.inputs = [i \in 1..n |->
                    [name |-> Marker("@param", i - 1), val |-> stmt.bindings[i]]]
             ELSE wire.bindings = stmt.bindings /\ Len(wire.bindings) = n

\* the clauses of compiled SQL with the keyword kw
ClausesOf(sql, kw) == {i \in 1..Len(sql) : sql[i].kw = kw}

C15_InsertPlaceholderPerBinding ==
  compiled.op = "insert" =>
    /\ compiled.bindings = FlatMapValues(compiled.arg.rows)
    /\ Len(Placeholders(compiled.sql))
         = Len(compiled.arg.rows) * Len(compiled.arg.rows[1])

\* C16: for MSSQL a SELECT with limit or offset set and no order specs
\* compiles to SQL with an injected ORDER BY clause placed before OFFSET; for
\* Oracle the same input gives a warning and no injected ORDER BY clause.
C16_PaginationOrderBy ==
  ( /\ compiled.op \in {"select", "first"}
    /\ given.limit # Null \/ given.offset # Null
    /\ given.orderBy = <<>> ) =>
      /\ grammar = "mssql" =>
           \E i \in ClausesOf(compiled.sql, "order by") :
             /\ compiled.sql[i].items = <<Item(InjectedOrder.column,
                                               InjectedOrder.direction, 0, NoMark)>>
             /\ \E j \in ClausesOf(compiled.sql, "offset") : i < j
      /\ grammar = "oracle" =>
           /\ compiled.warned
           /\ ClausesOf(compiled.sql, "order by") = {}

\* the place of a clause in the fixed order of a SELECT
ClauseRank(kw) ==
  CASE kw = "select"   -> 1
    [] kw = "from"     -> 2
    [] kw = "join"     -> 3
    [] kw = "where"    -> 4
    [] kw = "group by" -> 5
    [] kw = "having"   -> 6
    [] kw = "order by" -> 7
    [] OTHER           -> 8

C18_CompileLeavesStatements ==
  compiled.op # "none" => statements = given

\* C19: for Oracle, compileCreateTable on a table with one increments column
\* returns exactly 3 statements in the order create table, create sequence,
\* create trigger, the trigger referring to the sequence of statement 2; a
\* table without auto-increment column yields exactly 1 statement.
C19_AutoIncrementEmulation ==
  (schemaGrammar = "oracle" /\ ddl.op = "createTable" /\ ~ddl.thrown) =>
    LET cmds == ddl.commands
        incs == {i \in 1..Len(ddl.columns) :
                   ddl.columns[i].type \in {"increments", "bigIncrements"}}
    IN  /\ cmds[1].kind = "create table"
        /\ cmds[1].name = onTable
        /\ IF incs # {}
             THEN /\ Len(cmds) = 3
                  /\ cmds[2].kind = "create sequence"
                  /\ cmds[3].kind = "create trigger"
                  /\ cmds[3].sequence = cmds[2].name
                  /\ cmds[3].table = onTable
                  /\ cmds[3].column \in incs
             ELSE Len(cmds) = 1

\* a table whose name is longer than both prefixes, with one increments
\* column, was compiled
C19_Witness ==
  /\ schemaGrammar = "oracle"
  /\ ddl.op = "createTable"
  /\ Len(onTable) > SeqPrefixLen
  /\ Len(ddl.commands) = 3
  /\ ddl.commands[3].kind = "create trigger"

\* C20: for Oracle, the compiled dropTableIfExists block never raises when
\* the table does not exist (so running it twice in a row raises neither
\* time), and it re-raises every error other than ORA-942 and ORA-2289.
\* (faultAt = 0: neither statement of the block fails for a reason other
\* than its object being absent.)
C20_GuardedDrop ==
  (schemaGrammar = "oracle" /\ ddl.op = "dropTableIfExists") =>
    /\ (~ddl.existed /\ ddl.faultAt # 1) => ddl.raised = 0
    /\ ddl.faultAt = 0 => ddl.raised = 0
    /\ ddl.sqlcode \notin {0, 0 - OraTableNotFound, 0 - OraSequenceNotFound}
         => ddl.raised = ddl.sqlcode

\* the block ran twice in a row on an existing table and raised neither time
C20_Witness ==
  /\ schemaGrammar = "oracle"
  /\ ddl.op = "dropTableIfExists"
  /\ ddl.prevOp = "dropTableIfExists"
  /\ ddl.raised = 0
  /\ ddl.prevRaised = 0
  /\ ddl.prevExisted
  /\ ~ddl.existed

\* C21: when a table definition holds a column type the dialect does not
\* support, createTable fails with UnsupportedTypeError during compilation,
\* before any statement of that createTable is sent to the connection.
C21_UnsupportedTypeError ==
  (/\ ddl.op = "createTable"
   /\ \E i \in 1..Len(ddl.columns) :
        GetTypeOf(schemaGrammar, ddl.columns[i]) = "unsupported")
    => (ddl.error = "UnsupportedTypeError" /\ ddl.sent = 0)

\* C26: after the Oracle dropTableIfExists block for a table completes
\* without raising, neither the table nor its auto-increment sequence
\* exists, whichever of the two existed before.
C26_DropLeavesNothing ==
  (schemaGrammar = "oracle" /\ ddl.op = "dropTableIfExists" /\ ddl.raised = 0)
    => (onTable \notin tables /\ GetSequenceName(onTable) \notin sequences)

\* the place of a part in NAME TYPE [DEFAULT v] [NOT NULL] [PRIMARY KEY|UNIQUE]
PartRank(part) ==
  CASE part = "name"        -> 1
    [] part = "type"        -> 2
    [] part = "default"     -> 3
    [] part = "not null"    -> 4
    [] part = "primary key" -> 5
    [] part = "unique"      -> 6
    [] OTHER                -> 7

\* C22: for every dialect and column definition, the compiled column text
\* has its parts in the order NAME, TYPE, then DEFAULT (if a default is
\* set), then NOT NULL (if not nullable), then PRIMARY KEY or UNIQUE (if set).
C22_ColumnPartOrder ==
  (colsql.done /\ colsql.thrown = "none") =>
    LET parts == colsql.parts
        Has(p) == \E i \in 1..Len(parts) : parts[i].part = p
    IN  /\ \A i, j \in 1..Len(parts) :
             i < j => PartRank(parts[i].part) < PartRank(parts[j].part)
        /\ parts[1].part = "name" /\ parts[2].part = "type"
        /\ Has("default") <=> coldef.defaultValue # Undefined
        /\ Has("not null") <=> ~coldef.isNullable
        /\ Has("primary key") <=> coldef.isPrimary
        /\ Has("unique") <=> coldef.isUnique

\* C23: every failure while executing a statement surfaces to the caller as
\* a QueryError whose sql and bindings are exactly the SQL text and the
\* binding list that were attempted on the driver.
C23_QueryErrorCarriesAttempt ==
  (wire # NotSent /\ surfaced.kind \notin {"none", "rows"}) =>
    /\ surfaced.kind = "QueryError"
    /\ wire.status = "sent"
    /\ surfaced.sql = wire.sql
    /\ surfaced.bindings = wire.bindings

\* the highest batch number of the records
LastBatch(records) ==
  CHOOSE b \in {records[f] : f \in Files} \cup {0} : \A f \in Files : records[f] <= b

\* the files not recorded, in ascending order
PendingOf(records) == Sorted(migFiles \ Recorded(records))

\* C24: latest() runs the up function of exactly the files not yet
\* recorded, each once, in ascending name order, records each under the
\* batch number last + 1, and runs nothing and returns an empty list when
\* nothing is pending.
C24_LatestRunsPending ==
  (/\ migLast.op = "latest" /\ migLast.tableOk
   /\ \A i \in 1..Len(PendingOf(migLast.before)) :
        PendingOf(migLast.before)[i] \notin migFailing)
    => LET pend == PendingOf(migLast.before)
       IN  /\ migLast.status = "ok"
           /\ migLast.ran = pend
           /\ migLast.returned = pend
           /\ \A f \in Files :
                migRecords[f] = IF \E i \in 1..Len(pend) : pend[i] = f
                                  THEN LastBatch(migLast.before) + 1
                                  ELSE migLast.before[f]

\* C25: rollback() runs the down function of exactly the migrations of the
\* highest batch, in descending name order, deletes their records, leaves
\* the earlier batches alone, and runs nothing and returns an empty list
\* when no migration is recorded.
C25_RollbackLastBatch ==
  (migLast.op = "rollback" /\ migLast.tableOk)
    => LET last == LastBatch(migLast.before)
           back == IF last = 0 THEN <<>>
                   ELSE SortedDesc({f \in Files : migLast.before[f] = last})
       IN  /\ migLast.status = "ok"
           /\ migLast.ran = back
           /\ migLast.returned = back
           /\ \A f \in Files :
                migRecords[f] = IF \E i \in 1..Len(back) : back[i] = f
                                  THEN 0 ELSE migLast.before[f]

\* C27: when the up function of a pending migration throws, latest()
\* rejects with a MigrationError naming that file, runs no later pending
\* migration, does not record the failed one, and leaves the ones that
\* already ran recorded under the new batch number.
C27_FailedUpStopsLatest ==
  (/\ migLast.op = "latest" /\ migLast.tableOk
   /\ \E i \in 1..Len(PendingOf(migLast.before)) :
        PendingOf(migLast.before)[i] \in migFailing)
    => LET pend  == PendingOf(migLast.before)
           first == CHOOSE i \in 1..Len(pend) :
                      /\ pend[i] \in migFailing
                      /\ \A j \in 1..(i - 1) : pend[j] \notin migFailing
       IN  /\ migLast.status = "MigrationError"
           /\ migLast.file = pend[first]
           /\ migLast.ran = SubSeq(pend, 1, first - 1)
           /\ \A f \in Files :
                migRecords[f] = IF \E i \in 1..(first - 1) : pend[i] = f
                                  THEN LastBatch(migLast.before) + 1
                                  ELSE migLast.before[f]

\* C28: under manual control, beginTransaction() while a transaction is
\* active acquires no second connection and issues no second BEGIN; commit()
\* and rollback() with no active transaction do nothing; and after commit()
\* or rollback() the transaction connection has been released once and
\* cleared, even when the command failed, so that a later beginTransaction()
\* acquires a connection again.
C28_ManualControl ==
  /\ (man.op = "beginTransaction" /\ man.before # NoConn) =>
       /\ man.acquired = 0 /\ man.begins = 0
       /\ transactionConnection = man.before
  /\ (man.op \in {"commit", "rollback"} /\ man.before = NoConn) =>
       /\ man.commands = 0 /\ man.released = 0 /\ ~man.failed
       /\ transactionConnection = NoConn
  /\ (man.op \in {"commit", "rollback"} /\ man.before # NoConn) =>
       /\ man.commands = 1 /\ man.released = 1
       /\ transactionConnection = NoConn
       /\ man.before \notin manHeld
  /\ (man.op = "beginTransaction" /\ man.before = NoConn /\ man.acquired = 1) =>
       /\ transactionConnection \in manHeld
       /\ manHeld = {transactionConnection}
  /\ Cardinality(manHeld) <= 1
  /\ \A c \in Conns :
       LET got == Len(SelectSeq(manLog, LAMBDA e : e.what = "getConnection" /\ e.conn = c))
           rel == Len(SelectSeq(manLog, LAMBDA e : e.what = "release" /\ e.conn = c))
       IN  rel = got - (IF c \in manHeld THEN 1 ELSE 0)

\* a commit failed, its connection was released, and the next
\* beginTransaction() acquired a connection
C28_Witness ==
  /\ man.op = "beginTransaction"
  /\ man.acquired = 1
  /\ Len(manLog) >= 6
  /\ manLog[3].what = "commit" /\ ~manLog[3].ok
  /\ manLog[4].what = "release"
  /\ transactionConnection # NoConn

\* C29: when several query() or transaction() calls are made concurrently
\* on a client that has not connected yet, exactly one pool is created for
\* the client and every call uses it; connect() on a connected client
\* creates no new pool.
C29_OnePool ==
  /\ poolsCreated <= 1
  /\ \A c \in Calls : used[c] # NoPool => used[c] = pool

\* C30: when connect() fails with a ConnectionError the client is left
\* unconnected (its pool is null), so that a later connect() or query()
\* attempts the connection again.
C30_FailedConnectLeavesNoPool ==
  (failRec.happened /\ failRec.others = 0) => failRec.poolAfter = NoPool

====
